---- MODULE Spec2Model ----
(***************************************************************************)
(* p4-stack: the rebase engine of `p4-stack update` (commands/update.py),  *)
(* the stack graph (graph_utils.py), the operation log (state.py) and the  *)
(* snapshot primitives (core/rebase.py), as state machines.                *)
(*                                                                         *)
(* The Perforce server and workspace are modelled by what the engine       *)
(* relies on: a shelf per pending changelist (basename -> content), the    *)
(* set of files opened in the workspace, and the files scheduled for       *)
(* resolve.  File content is a set of edit tokens on top of the depot      *)
(* revision; a clean automatic merge is the union of both sides.           *)
(***************************************************************************)
EXTENDS Integers, Sequences, FiniteSets, TLC

\* ------------------------------------------------------------------ bounds

\* Pending changelists of the current user are 1..MaxCL.
MaxCL == 3
\* Number of command invocations in one behaviour.
MaxRuns == 2
\* Number of VCS calls or tool runs that fail in one behaviour.
MaxFaults == 1
\* Number of characters of a description handed to set_depends_on.
MaxText == 6

\* ------------------------------------------------------------- vocabulary

CLs == 1..MaxCL
\* A changelist number that is not a pending changelist of the user.
Ghost == MaxCL + 1
\* Optional[str] = None (state.py: conflict_cl, graph_utils.py: parent_cl).
None == 0
Files == {"f", "g"}
\* The files a changelist shelves before the first command: none or one.
ShelfShapes == {{}} \cup {{f} : f \in Files}

\* Edit tokens: the change a changelist makes, the fix typed in the editor,
\* and an edit the user makes while resolving by hand.
Tok(cl) == <<"cl", cl>>
FixTok == <<"fix", 0>>
UsrTok == <<"usr", 0>>

\* A snapshot with no file, a workspace with no opened file.
NoFiles == [f \in {} |-> {}]
NoLog == [exists |-> FALSE]

Last(s) == s[Len(s)]
Front(s) == SubSeq(s, 1, Len(s) - 1)
Range(s) == {s[i] : i \in 1..Len(s)}

RECURSIVE SortedSeq(_)
\* sorted(..., key=lambda c: int(c.cl_num)) over a set of distinct CL numbers
SortedSeq(S) ==
  IF S = {} THEN <<>>
  ELSE LET m == CHOOSE x \in S : \A y \in S : x <= y
       IN <<m>> \o SortedSeq(S \ {m})

\* [cl for cl in seq if keep(cl)]
RECURSIVE FilterOut(_, _)
FilterOut(seq, drop) ==
  IF seq = <<>> THEN <<>>
  ELSE IF Head(seq) \in drop THEN FilterOut(Tail(seq), drop)
       ELSE <<Head(seq)>> \o FilterOut(Tail(seq), drop)

\* --------------------------------------------------------------- variables

VARIABLES
  desc,       \* server: CL -> the Depends-On numbers in its description, in order
  shelf,      \* server: CL -> shelved snapshot (file -> content)
  ws,         \* workspace: opened file -> [cl, content, theirs]
  log,        \* disk: the operation log file (.p4-stack-state.json) or NoLog
  pc,         \* position of the running command, "idle" when none runs
  cmd,        \* the command line of the current or last run
  state,      \* the UpdateState object held in memory by the run
  todo,       \* rest of stack_to_process in _run_update_loop
  cur,        \* cl_to_rebase
  nodes,      \* all_nodes_map
  log0,       \* history: the log file when the run started
  shelf0,     \* history: the shelves when the run started
  ws0,        \* history: the workspace when the run started
  processed,  \* history: CLs whose loop iteration started in this run
  edited,     \* history: CLs handed to the editor in this run
  ops,        \* history: VCS operations and tools the run has invoked
  fault,      \* history: the failure injected into this run's VCS operation
  outcome,    \* how the last run ended, "running" while it runs
  exitCode,   \* the exit code of the last run
  runs,       \* number of invocations so far
  faults,     \* number of failures injected so far
  userR,      \* history: the last re-shelve the user did while paused
  shelvedCLs, \* history: CLs the operation in progress has force-shelved
  spc,        \* position inside a snapshot primitive, "idle" outside
  call,       \* the snapshot primitive called last, with its arguments
  trace,      \* history: the VCS operations the call issued, in order
  raised,     \* the exception the call left with, "none" when it returned
  result,     \* what get_cl_snapshot returned
  towrite,    \* rest of files_to_write in commit_snapshot_to_cl's loop
  fpc,        \* position of a caller of the pure functions, "none" outside
  fin,        \* the arguments the caller passes
  fout        \* what the functions returned

vars == <<desc, shelf, ws, log, pc, cmd, state, todo, cur, nodes, log0, shelf0,
          ws0, processed, edited, ops, fault, faults, outcome, exitCode, runs,
          userR, shelvedCLs, spc, call, trace, raised, result, towrite,
          fpc, fin, fout>>

\* The state of the snapshot primitives.
snapVars == <<spc, call, trace, raised, result, towrite>>
\* The state of a caller of the pure functions.
fnVars == <<fpc, fin, fout>>

\* ------------------------------------------------------------ stack graph

parse_depends_on_Last(description) ==
  IF description = <<>> THEN None ELSE description[Len(description)]
\* DEPENDS_ON_RE.search(description): the first tag, or None
parse_depends_on(description) ==
  IF description = <<>> THEN None ELSE Head(description)

\* build_stack_graph: the nodes with parent_cl and sorted children, and the
\* sorted roots.  A node is linked under its parent when the tag names a CL of
\* changes_map, otherwise it is a root.
build_stack_graph(raw_changes) ==
  LET changes_map == DOMAIN raw_changes
      parent_cl(c) == parse_depends_on(raw_changes[c])
      linked(c) == parent_cl(c) # None /\ parent_cl(c) \in changes_map
  IN [node |-> [c \in changes_map |->
                  [parent_cl |-> parent_cl(c),
                   children |-> SortedSeq({k \in changes_map :
                                             linked(k) /\ parent_cl(k) = c})]],
      roots |-> SortedSeq({c \in changes_map : ~linked(c)})]

\* _find_node_in_graph: depth-first from the roots, popping the stack's end
RECURSIVE FindFrom(_, _, _)
FindFrom(cl_num, stack, graph) ==
  IF stack = <<>> THEN None
  ELSE LET node == Last(stack)
       IN IF node = cl_num THEN node
          ELSE FindFrom(cl_num, Front(stack) \o graph.node[node].children, graph)

_find_node_in_graph(cl_num, graph) == FindFrom(cl_num, graph.roots, graph)

\* _get_stack_from_node: breadth-first, children in sorted order
RECURSIVE BfsFrom(_, _, _)
BfsFrom(stack_to_visit, stack_nodes, graph) ==
  IF stack_to_visit = <<>> THEN stack_nodes
  ELSE LET node == Head(stack_to_visit)
       IN BfsFrom(Tail(stack_to_visit) \o SortedSeq(Range(graph.node[node].children)),
                  Append(stack_nodes, node), graph)

_get_stack_from_node_Reversed(base_node, graph) ==
  LET s == BfsFrom(<<base_node>>, <<>>, graph)
  IN [i \in 1..Len(s) |-> IF i = 1 THEN s[1] ELSE s[Len(s) + 2 - i]]
_get_stack_from_node(base_node, graph) == BfsFrom(<<base_node>>, <<>>, graph)

\* _get_all_nodes_map: every node reachable from the roots
RECURSIVE CollectFrom(_, _, _)
CollectFrom(stack, all_nodes, graph) ==
  IF stack = <<>> THEN all_nodes
  ELSE LET node == Last(stack)
       IN CollectFrom(Front(stack) \o graph.node[node].children,
                      all_nodes \cup {node}, graph)

_get_all_nodes_map(graph) ==
  LET reached == CollectFrom(graph.roots, {}, graph)
  IN [c \in reached |-> graph.node[c]]

\* ------------------------------------------------- Perforce server model

\* Outcome of one VCS call (P4Connection method): it returns, it raises
\* P4LoginRequiredError (_is_login_error), or it raises P4OperationError.
AllOutcomes == {"ok", "login", "fail"}
\* The outcomes a VCS call can have in the current state: a call the server
\* rejects fails; any call may fail or find the session expired.
Outcomes == IF faults < MaxFaults THEN AllOutcomes ELSE {"ok"}
OutcomesOf(rejected) ==
  IF rejected THEN {"fail"} \cup (Outcomes \ {"ok"}) ELSE Outcomes

\* Files opened in changelist cl, and files scheduled for resolve.
OpenedIn(w, cl) == {f \in DOMAIN w : w[f].cl = cl}
NeedResolve(w) == {f \in DOMAIN w : w[f].theirs # {}}

\* Mutant: the revert leaves the files opened.
revert_all_Noop(w) == w

\* p4 revert //... : no file stays opened
revert_all(w) == NoFiles

\* p4 unshelve -s source_cl -c target_cl: a shelved file not opened yet is
\* opened in target_cl with the shelved content; a shelved file that is already
\* opened keeps the workspace content and is scheduled for resolve against the
\* shelved content.
unshelve(w, source_cl, target_cl) ==
  LET src == shelf[source_cl]
  IN [f \in DOMAIN w \cup DOMAIN src |->
        IF f \notin DOMAIN src THEN w[f]
        ELSE IF f \in DOMAIN w THEN [w[f] EXCEPT !.theirs = {src[f]}]
        ELSE [cl |-> target_cl, content |-> src[f], theirs |-> {}]]

\* The server rejects an unshelve of a changelist without shelved files.
UnshelveRejected(source_cl) == DOMAIN shelf[source_cl] = {}

\* Mutant: the automatic merge takes their side.
Merge_Theirs(yours, theirs) == theirs

\* Automatic merge of one file: both sides' edits when they do not collide.
Merge(yours, theirs) == yours \cup theirs

\* Edits can collide only when each side has an edit the other lacks.
CanConflict(yours, theirs) == yours \ theirs # {} /\ theirs \ yours # {}
Their(w, f) == CHOOSE t \in w[f].theirs : TRUE

\* The files on which p4 resolve -am may report a conflict.
Collidable(w) == {f \in NeedResolve(w) : CanConflict(w[f].content, Their(w, f))}

\* p4 resolve -am where the files of `skipped` collide: every other scheduled
\* file is merged and resolved, a skipped file keeps its content and stays
\* scheduled for resolve.
resolve_auto_merge(w, skipped) ==
  [f \in DOMAIN w |->
     IF f \in NeedResolve(w) \ skipped
     THEN [w[f] EXCEPT !.content = Merge(w[f].content, Their(w, f)), !.theirs = {}]
     ELSE w[f]]

\* Mutant: the shelve leaves the shelf as it is.
force_shelve_Noop(w, cl_num) == shelf[cl_num]

\* Mutant: the shelve updates only files that are shelved already.
force_shelve_NoAdd(w, cl_num) ==
  [f \in DOMAIN shelf[cl_num] |->
     IF f \in OpenedIn(w, cl_num) THEN w[f].content ELSE shelf[cl_num][f]]

\* p4 shelve -f -c cl_num: the shelved copy of every file opened in cl_num is
\* overwritten with the workspace content; other shelved files stay.
force_shelve(w, cl_num) ==
  [f \in DOMAIN shelf[cl_num] \cup OpenedIn(w, cl_num) |->
     IF f \in OpenedIn(w, cl_num) THEN w[f].content ELSE shelf[cl_num][f]]

\* The server rejects a shelve of a changelist with no opened file.
ShelveRejected(w, cl_num) == OpenedIn(w, cl_num) = {}

\* ------------------------------------------------------- operation log

\* UpdateState(base_cl, stack_to_update, rebased_cls) with conflict_cl = None
UpdateState(base_cl, stack_to_update, rebased_cls) ==
  [exists |-> TRUE, base_cl |-> base_cl, stack_to_update |-> stack_to_update,
   rebased_cls |-> rebased_cls, conflict_cl |-> None]

\* save_state: the whole file is replaced by the entry
save_state(st) == st

\* The file as a process killed inside save_state leaves it: open(.., 'w')
\* has truncated it and the entry is not, or not wholly, written.
TornLog == [exists |-> TRUE, torn |-> TRUE]

\* load_state: the saved entry, or None (NoLog) when the file is missing or
\* does not parse
load_state == IF log = TornLog THEN NoLog ELSE log

\* Mutant: the file is left in place.
clear_state_Kept == log

\* clear_state: the file is removed
clear_state == NoLog

\* ---------------------------------------------------- command layer

\* Mutant: the conflict pause exits as a failure.
ExitCodeOf_ConflictFails(outc) ==
  IF outc \in {"done", "login"} THEN 0 ELSE 1

\* Mutant: a refused --continue exits as a success.
ExitCodeOf_NoLogOk(outc) ==
  IF outc \in {"done", "conflict", "login", "no-log"} THEN 0 ELSE 1

\* update_stack's handlers: the exit code for each way a run ends.
\* P4LoginRequiredError and P4ConflictException exit 0, the normal return
\* exits 0, everything else (P4Exception, typer.Exit(1), Exception) exits 1.
ExitCodeOf(outc) ==
  IF outc \in {"done", "conflict", "login"} THEN 0 ELSE 1

\* Mutant: the workspace is reverted on a conflict too.
RevertsOnExit_Conflict(outc) == outc # "login"

\* Mutant: the workspace is reverted on a clean completion only.
RevertsOnExit_OnlyDone(outc) == outc = "done"

\* update_stack reverts the workspace in its except and finally clauses unless
\* the run ends on a conflict or a login error.
RevertsOnExit(outc) == outc \notin {"conflict", "login"}

\* The run ends: control returns to the shell.
Terminate(outc, w) ==
  /\ pc' = "idle"
  /\ outcome' = outc
  /\ exitCode' = ExitCodeOf(outc)
  /\ ws' = IF RevertsOnExit(outc) THEN revert_all(w) ELSE w

\* A VCS call of the run raises: login-required or operation-failed.
Raise(o, w) ==
  /\ fault' = o
  /\ faults' = IF faults < MaxFaults THEN faults + 1 ELSE faults
  /\ Terminate(IF o = "login" THEN "login" ELSE "error", w)

\* Mutant: the loop does not skip the CLs already rebased.
StackToProcess_All(st) == st.stack_to_update

\* Mutant: the CLs that are left are processed last first.
StackToProcess_Reversed(st) ==
  LET s == FilterOut(st.stack_to_update, Range(st.rebased_cls))
  IN [i \in 1..Len(s) |-> s[Len(s) + 1 - i]]

\* stack_to_process of _run_update_loop
StackToProcess(st) == FilterOut(st.stack_to_update, Range(st.rebased_cls))

\* ------------------------------------------------------------ initial state

\* Every pending CL has a description with no tag or one tag naming any CL
\* number (itself, another pending CL, or a CL that is not pending), and a
\* shelf holding its own edit of at most one file.  No command has run.
Init ==
  /\ desc \in [CLs -> {<<>>} \cup {<<p>> : p \in 1..Ghost}]
  /\ \E S \in [CLs -> ShelfShapes] :
       shelf = [c \in CLs |-> [f \in S[c] |-> {Tok(c)}]]
  /\ ws = NoFiles
  /\ log = NoLog
  /\ pc = "idle"
  /\ cmd = [cont |-> FALSE, cl |-> None]
  /\ state = NoLog
  /\ todo = <<>>
  /\ cur = None
  /\ nodes = NoFiles
  /\ log0 = NoLog
  /\ shelf0 = shelf
  /\ ws0 = NoFiles
  /\ processed = <<>>
  /\ edited = {}
  /\ ops = {}
  /\ fault = "none"
  /\ outcome = "none"
  /\ exitCode = 0
  /\ runs = 0
  /\ faults = 0
  /\ userR = [cl |-> None, snap |-> NoFiles]
  /\ shelvedCLs = <<>>
  /\ spc = "idle"
  /\ call = [fn |-> "none"]
  /\ trace = <<>>
  /\ raised = "none"
  /\ result = [returned |-> FALSE]
  /\ towrite = {}
  /\ fpc = "none" /\ fin = <<>> /\ fout = <<>>

\* ------------------------------------------------------------------ actions

\* update_stack(cl_num, continue_op) up to the dispatch: `p4-stack update CL`
\* or `p4-stack update --continue`.
Dispatch(c, cont) ==
  /\ pc = "idle"
  /\ UNCHANGED <<snapVars, fnVars, shelvedCLs>>
  /\ cmd' = [cont |-> cont, cl |-> c]
  /\ log0' = log /\ shelf0' = shelf /\ ws0' = ws
  /\ processed' = <<>> /\ edited' = {} /\ ops' = {} /\ fault' = "none"
  /\ state' = NoLog /\ todo' = <<>> /\ cur' = None /\ nodes' = NoFiles
  /\ pc' = IF cont THEN "continue" ELSE "new"
  /\ outcome' = "running"
  /\ exitCode' = 0
  /\ UNCHANGED <<desc, shelf, ws, log, faults, userR>>

\* A command line typed at the shell, within the budget of runs
Invoke(c, cont) ==
  /\ runs < MaxRuns
  /\ runs' = runs + 1
  /\ Dispatch(c, cont)

\* Mutant: the check for a log in progress is skipped.
StateFileExists_Never == FALSE

\* os.path.exists(STATE_FILE)
StateFileExists == log # NoLog

\* _handle_new_update, followed by the entry of _run_update_loop
NewUpdate ==
  /\ pc = "new"
  /\ UNCHANGED <<snapVars, fnVars>>
  /\ shelvedCLs' = IF StateFileExists THEN shelvedCLs ELSE <<>>
  /\ IF StateFileExists
     THEN /\ Terminate("log-exists", ws)
          /\ UNCHANGED <<ops, fault, faults, state, log, nodes, todo>>
     ELSE \E o \in Outcomes :
            /\ ops' = ops \cup {"changes"}
            /\ IF o # "ok"
               THEN /\ Raise(o, ws)
                    /\ UNCHANGED <<state, log, nodes, todo>>
               ELSE LET roots == build_stack_graph(desc)
                        base_node == _find_node_in_graph(cmd.cl, roots)
                        st == UpdateState(cmd.cl,
                                          _get_stack_from_node(base_node, roots),
                                          <<>>)
                    IN IF base_node = None
                       THEN /\ Terminate("cl-not-in-stack", ws)
                            /\ UNCHANGED <<fault, faults, state, log, nodes, todo>>
                       ELSE /\ state' = st
                            /\ log' = save_state(st)
                            /\ nodes' = _get_all_nodes_map(roots)
                            /\ todo' = StackToProcess(st)
                            /\ pc' = "loop"
                            /\ UNCHANGED <<ws, outcome, exitCode, fault, faults>>
  /\ UNCHANGED <<desc, shelf, cmd, cur, log0, shelf0, ws0, processed, edited,
                 runs, userR>>

\* _handle_continue_update up to the test of state.conflict_cl
ContinueUpdate ==
  /\ pc = "continue"
  /\ UNCHANGED <<snapVars, fnVars, shelvedCLs>>
  /\ IF load_state = NoLog
     THEN /\ Terminate("no-log", ws)
          /\ UNCHANGED <<ops, fault, faults, state, nodes, todo>>
     ELSE \E o \in Outcomes :
            /\ ops' = ops \cup {"changes"}
            /\ IF o # "ok"
               THEN /\ Raise(o, ws)
                    /\ UNCHANGED <<state, nodes, todo>>
               ELSE /\ state' = load_state
                    /\ nodes' = _get_all_nodes_map(build_stack_graph(desc))
                    /\ IF load_state.conflict_cl # None
                       THEN pc' = "resolved" /\ todo' = todo
                       ELSE pc' = "loop" /\ todo' = StackToProcess(load_state)
                    /\ UNCHANGED <<ws, outcome, exitCode, fault, faults>>
  /\ UNCHANGED <<desc, shelf, log, cmd, cur, log0, shelf0, ws0, processed,
                 edited, runs, userR>>

\* _handle_continue_update, the conflict_cl branch: shelve the resolved CL,
\* record it as rebased, save, and enter _run_update_loop
ContinueShelve ==
  /\ pc = "resolved"
  /\ UNCHANGED <<snapVars, fnVars>>
  /\ ops' = ops \cup {"shelve"}
  /\ LET cl_to_shelve == state.conflict_cl
     IN \E o \in OutcomesOf(ShelveRejected(ws, cl_to_shelve)) :
          IF o # "ok"
          THEN /\ Raise(o, ws)
               /\ UNCHANGED <<shelf, state, log, todo, shelvedCLs>>
          ELSE LET st == [state EXCEPT
                            !.rebased_cls = Append(@, cl_to_shelve),
                            !.conflict_cl = None]
               IN /\ shelf' = [shelf EXCEPT ![cl_to_shelve] =
                                 force_shelve(ws, cl_to_shelve)]
                  /\ shelvedCLs' = Append(shelvedCLs, cl_to_shelve)
                  /\ state' = st
                  /\ log' = save_state(st)
                  /\ todo' = StackToProcess(st)
                  /\ pc' = "loop"
                  /\ UNCHANGED <<ws, outcome, exitCode, fault, faults>>
  /\ UNCHANGED <<desc, cmd, cur, nodes, log0, shelf0, ws0, processed, edited,
                 runs, userR>>

\* Mutant: every step is taken for the step of the base CL.
IsBaseStep_Always(cl_to_rebase) == TRUE

\* _run_update_loop: `if cl_to_rebase == state.base_cl`
IsBaseStep(cl_to_rebase) == cl_to_rebase = state.base_cl

\* _run_update_loop: the head of one iteration (node lookup, revert_all), or
\* the end of the loop (clear_state, then update_stack's finally clause)
LoopNext ==
  /\ pc = "loop"
  /\ UNCHANGED <<snapVars, fnVars, shelvedCLs>>
  /\ IF todo = <<>>
     THEN /\ log' = clear_state
          /\ Terminate("done", ws)
          /\ UNCHANGED <<todo, cur, processed, ops, fault, faults>>
     ELSE LET cl_to_rebase == Head(todo)
          IN /\ todo' = Tail(todo)
             /\ cur' = cl_to_rebase
             /\ processed' = Append(processed, cl_to_rebase)
             /\ log' = log
             /\ IF cl_to_rebase \notin DOMAIN nodes
                THEN /\ Terminate("error", ws)
                     /\ UNCHANGED <<ops, fault, faults>>
                ELSE \E o \in Outcomes :
                       /\ ops' = ops \cup {"revert"}
                       /\ IF o # "ok"
                          THEN Raise(o, ws)
                          ELSE /\ ws' = revert_all(ws)
                               /\ pc' = IF IsBaseStep(cl_to_rebase)
                                        THEN "base" ELSE "child"
                               /\ UNCHANGED <<outcome, exitCode, fault, faults>>
  /\ UNCHANGED <<desc, shelf, cmd, state, nodes, log0, shelf0, ws0, edited,
                 runs, userR>>

\* The base CL's step: p4.unshelve(cl_to_rebase, cl_to_rebase)
BaseUnshelve ==
  /\ pc = "base"
  /\ UNCHANGED <<snapVars, fnVars, shelvedCLs>>
  /\ ops' = ops \cup {"unshelve"}
  /\ \E o \in OutcomesOf(UnshelveRejected(cur)) :
       IF o # "ok"
       THEN Raise(o, ws)
       ELSE /\ ws' = unshelve(ws, cur, cur)
            /\ pc' = "editor"
            /\ UNCHANGED <<outcome, exitCode, fault, faults>>
  /\ UNCHANGED <<desc, shelf, log, cmd, state, todo, cur, nodes, log0, shelf0,
                 ws0, processed, edited, runs, userR>>

\* The files the editor changed get the fix.
EditorWrites(w, changed) ==
  [f \in DOMAIN w |->
     IF f \in changed THEN [w[f] EXCEPT !.content = @ \cup {FixTok}] ELSE w[f]]

\* _launch_editor: get_opened_files, then $EDITOR over the local paths; the
\* editor may change any of them, or fail (not found, non-zero exit)
LaunchEditor ==
  /\ pc = "editor"
  /\ UNCHANGED <<snapVars, fnVars, shelvedCLs>>
  /\ \E o \in Outcomes :
       IF o # "ok"
       THEN /\ Raise(o, ws)
            /\ ops' = ops \cup {"opened"}
            /\ edited' = edited
       ELSE LET local_paths == OpenedIn(ws, cur)
            IN IF local_paths = {}
               THEN /\ pc' = "shelve"
                    /\ ops' = ops \cup {"opened"}
                    /\ UNCHANGED <<ws, edited, outcome, exitCode, fault, faults>>
               ELSE /\ ops' = ops \cup {"opened", "editor"}
                    /\ edited' = edited \cup {cur}
                    /\ \E e \in Outcomes \ {"login"} :
                         IF e # "ok"
                         THEN Raise(e, ws)
                         ELSE /\ \E changed \in SUBSET local_paths :
                                   ws' = EditorWrites(ws, changed)
                              /\ pc' = "shelve"
                              /\ UNCHANGED <<outcome, exitCode, fault, faults>>
  /\ UNCHANGED <<desc, shelf, log, cmd, state, todo, cur, nodes, log0, shelf0,
                 ws0, processed, runs, userR>>

\* A descendant's step: the parent lookup and p4.unshelve(cl, cl)
ChildUnshelve ==
  /\ pc = "child"
  /\ UNCHANGED <<snapVars, fnVars, shelvedCLs>>
  /\ IF nodes[cur].parent_cl = None
     THEN /\ Terminate("error", ws)
          /\ UNCHANGED <<ops, fault, faults>>
     ELSE /\ ops' = ops \cup {"unshelve"}
          /\ \E o \in OutcomesOf(UnshelveRejected(cur)) :
               IF o # "ok"
               THEN Raise(o, ws)
               ELSE /\ ws' = unshelve(ws, cur, cur)
                    /\ pc' = "parent"
                    /\ UNCHANGED <<outcome, exitCode, fault, faults>>
  /\ UNCHANGED <<desc, shelf, log, cmd, state, todo, cur, nodes, log0, shelf0,
                 ws0, processed, edited, runs, userR>>

\* A descendant's step: p4.unshelve(parent_cl, cl_to_rebase)
ParentUnshelve ==
  /\ pc = "parent"
  /\ UNCHANGED <<snapVars, fnVars, shelvedCLs>>
  /\ ops' = ops \cup {"unshelve"}
  /\ LET parent_cl == nodes[cur].parent_cl
     IN \E o \in OutcomesOf(UnshelveRejected(parent_cl)) :
          IF o # "ok"
          THEN Raise(o, ws)
          ELSE /\ ws' = unshelve(ws, parent_cl, cur)
               /\ pc' = "resolve"
               /\ UNCHANGED <<outcome, exitCode, fault, faults>>
  /\ UNCHANGED <<desc, shelf, log, cmd, state, todo, cur, nodes, log0, shelf0,
                 ws0, processed, edited, runs, userR>>

\* A descendant's step: p4.resolve_auto_merge(); on P4ConflictException the
\* conflict is saved in the log and re-raised.  resolve_auto_merge reports a
\* conflict from the output of p4 resolve -am (an entry whose action is
\* missing or names a resolve): it can do so whenever a file was scheduled,
\* whether or not a file stays unresolved.
ResolveStep ==
  /\ pc = "resolve"
  /\ UNCHANGED <<snapVars, fnVars, shelvedCLs>>
  /\ ops' = ops \cup {"resolve"}
  /\ \E o \in Outcomes \cup (IF NeedResolve(ws) # {} THEN {"conflict"}
                                                      ELSE {}) :
       IF o = "ok"
       THEN /\ ws' = resolve_auto_merge(ws, {})
            /\ pc' = "shelve"
            /\ UNCHANGED <<state, log, outcome, exitCode, fault, faults>>
       ELSE IF o = "conflict"
       THEN /\ \E skipped \in SUBSET Collidable(ws) :
                 Terminate("conflict", resolve_auto_merge(ws, skipped))
            /\ state' = [state EXCEPT !.conflict_cl = cur]
            /\ log' = save_state(state')
            /\ UNCHANGED <<fault, faults>>
       ELSE /\ Raise(o, ws)
            /\ UNCHANGED <<state, log>>
  /\ UNCHANGED <<desc, shelf, cmd, todo, cur, nodes, log0, shelf0, ws0,
                 processed, edited, runs, userR>>

\* The end of a step: p4.force_shelve(cl_to_rebase), then the CL is appended
\* to rebased_cls and the log is saved
ShelveStep ==
  /\ pc = "shelve"
  /\ UNCHANGED <<snapVars, fnVars>>
  /\ ops' = ops \cup {"shelve"}
  /\ \E o \in OutcomesOf(ShelveRejected(ws, cur)) :
       IF o # "ok"
       THEN /\ Raise(o, ws)
            /\ UNCHANGED <<shelf, state, log, shelvedCLs>>
       ELSE /\ shelf' = [shelf EXCEPT ![cur] = force_shelve(ws, cur)]
            /\ shelvedCLs' = Append(shelvedCLs, cur)
            /\ state' = [state EXCEPT !.rebased_cls = Append(@, cur)]
            /\ log' = save_state(state')
            /\ pc' = "loop"
            /\ UNCHANGED <<ws, outcome, exitCode, fault, faults>>
  /\ UNCHANGED <<desc, cmd, todo, cur, nodes, log0, shelf0, ws0, processed,
                 edited, runs, userR>>

\* --------------------------------------------------------- the user, paused

\* The changelist a pause is waiting on, None when there is none.
PausedOn == IF load_state = NoLog THEN None ELSE load_state.conflict_cl

\* `p4 resolve` by hand: every file scheduled for resolve gets both sides'
\* edits.
UserResolve ==
  /\ pc = "idle"
  /\ UNCHANGED <<snapVars, fnVars, shelvedCLs>>
  /\ NeedResolve(ws) # {}
  /\ ws' = [f \in DOMAIN ws |->
              IF f \in NeedResolve(ws)
              THEN [ws[f] EXCEPT !.content = Merge(@, Their(ws, f)),
                                 !.theirs = {}]
              ELSE ws[f]]
  /\ UNCHANGED <<desc, shelf, log, pc, cmd, state, todo, cur, nodes, log0,
                 shelf0, ws0, processed, edited, ops, fault, faults, outcome,
                 exitCode, runs, userR>>

\* The user re-shelves the resolved files of the paused changelist.
UserReshelve ==
  /\ pc = "idle"
  /\ UNCHANGED <<snapVars, fnVars, shelvedCLs>>
  /\ PausedOn # None
  /\ OpenedIn(ws, PausedOn) # {}
  /\ NeedResolve(ws) = {}
  /\ shelf' = [shelf EXCEPT ![PausedOn] = force_shelve(ws, PausedOn)]
  /\ userR' = [cl |-> PausedOn, snap |-> shelf'[PausedOn]]
  /\ UNCHANGED <<desc, ws, log, pc, cmd, state, todo, cur, nodes, log0, shelf0,
                 ws0, processed, edited, ops, fault, faults, outcome, exitCode,
                 runs>>

\* The user edits a resolved file of the paused changelist in the workspace.
UserEdit ==
  /\ pc = "idle"
  /\ UNCHANGED <<snapVars, fnVars, shelvedCLs>>
  /\ PausedOn # None
  /\ NeedResolve(ws) = {}
  /\ \E f \in OpenedIn(ws, PausedOn) :
       /\ UsrTok \notin ws[f].content
       /\ ws' = [ws EXCEPT ![f].content = @ \cup {UsrTok}]
  /\ UNCHANGED <<desc, shelf, log, pc, cmd, state, todo, cur, nodes, log0,
                 shelf0, ws0, processed, edited, ops, fault, faults, outcome,
                 exitCode, runs, userR>>

\* ------------------------------------------------------------ specification

Next ==
  \/ \E c \in CLs \cup {Ghost} : Invoke(c, FALSE)
  \/ Invoke(None, TRUE)
  \/ NewUpdate
  \/ ContinueUpdate
  \/ ContinueShelve
  \/ LoopNext
  \/ BaseUnshelve
  \/ LaunchEditor
  \/ ChildUnshelve
  \/ ParentUnshelve
  \/ ResolveStep
  \/ ShelveStep
  \/ UserResolve
  \/ UserReshelve
  \/ UserEdit

Spec == Init /\ [][Next]_vars

\* ------------------------------------------------------ one rebase, fair

\* `p4-stack update CL`, once
Rebase(c) ==
  /\ runs = 0
  /\ runs' = 1
  /\ Dispatch(c, FALSE)

\* `p4-stack update --continue`, when the run paused on a conflict and no
\* file is left to resolve
ContinueRebase ==
  /\ PausedOn # None
  /\ NeedResolve(ws) = {}
  /\ runs' = runs
  /\ Dispatch(None, TRUE)

\* The steps of a command that has created or loaded the log: the process
\* runs until it exits.
EngineStep ==
  \/ ContinueUpdate
  \/ ContinueShelve
  \/ LoopNext
  \/ BaseUnshelve
  \/ LaunchEditor
  \/ ChildUnshelve
  \/ ParentUnshelve
  \/ ResolveStep
  \/ ShelveStep

NextFair ==
  \/ \E c \in CLs : Rebase(c)
  \/ ContinueRebase
  \/ NewUpdate
  \/ EngineStep
  \/ UserResolve

\* No VCS call fails for a cause outside the model's state: the budget of
\* injected faults is spent.
InitFair ==
  /\ \E d \in [CLs -> {<<>>} \cup {<<p>> : p \in 1..Ghost}],
        S \in [CLs -> ShelfShapes] :
       /\ desc = d
       /\ shelf = [c \in CLs |-> [f \in S[c] |-> {Tok(c)}]]
  /\ ws = NoFiles
  /\ log = NoLog
  /\ pc = "idle"
  /\ cmd = [cont |-> FALSE, cl |-> None]
  /\ state = NoLog
  /\ todo = <<>>
  /\ cur = None
  /\ nodes = NoFiles
  /\ log0 = NoLog
  /\ shelf0 = shelf
  /\ ws0 = NoFiles
  /\ processed = <<>>
  /\ edited = {}
  /\ ops = {}
  /\ fault = "none"
  /\ outcome = "none"
  /\ exitCode = 0
  /\ runs = 0
  /\ faults = MaxFaults
  /\ userR = [cl |-> None, snap |-> NoFiles]
  /\ shelvedCLs = <<>>
  /\ spc = "idle"
  /\ call = [fn |-> "none"]
  /\ trace = <<>>
  /\ raised = "none"
  /\ result = [returned |-> FALSE]
  /\ towrite = {}
  /\ fpc = "none" /\ fin = <<>> /\ fout = <<>>

\* Once the log exists a started command runs to its exit; the user resolves
\* what a pause leaves to resolve and then continues.
Fairness ==
  /\ WF_vars(EngineStep)
  /\ WF_vars(UserResolve)
  /\ WF_vars(ContinueRebase)

SpecFair == InitFair /\ [][NextFair]_vars /\ Fairness

\* -------------------------------------------------------------- crash

\* The handler at the current position writes the log file with save_state:
\* the first save of _handle_new_update, the save after a force_shelve, the
\* save of the conflict.
SavesState ==
  \/ pc \in {"shelve", "resolved"}
  \/ /\ pc = "new"
     /\ ~StateFileExists
     /\ _find_node_in_graph(cmd.cl, build_stack_graph(desc)) # None
  \/ pc = "resolve" /\ NeedResolve(ws) # {}

\* The process is killed (SIGKILL, power loss) while a command runs: no except
\* or finally clause runs, the workspace and the log file stay as they are.
\* `point` is the place inside the current handler where it dies:
\*   "before":  before the handler's first effect;
\*   "shelved": after p4.force_shelve returned and before save_state;
\*   "torn":    inside save_state, after open(STATE_FILE, 'w') truncated the
\*              file and before the entry is flushed.
Kill(point) ==
  /\ pc # "idle"
  /\ UNCHANGED <<snapVars, fnVars>>
  /\ pc' = "idle"
  /\ outcome' = "killed"
  /\ exitCode' = 137
  /\ LET c == IF pc = "resolved" THEN state.conflict_cl ELSE cur
         shelves == point # "before" /\ pc \in {"shelve", "resolved"}
     IN /\ point = "shelved" => pc \in {"shelve", "resolved"}
        /\ point = "torn" => SavesState
        /\ shelves => ~ShelveRejected(ws, c)
        /\ shelf' = IF shelves
                    THEN [shelf EXCEPT ![c] = force_shelve(ws, c)]
                    ELSE shelf
        /\ shelvedCLs' = IF shelves THEN Append(shelvedCLs, c) ELSE shelvedCLs
        /\ log' = IF point = "torn" THEN TornLog ELSE log
  /\ UNCHANGED <<desc, ws, cmd, state, todo, cur, nodes, log0, shelf0, ws0,
                 processed, edited, ops, fault, faults, runs, userR>>

NextCrash ==
  \/ Next
  \/ \E point \in {"before", "shelved", "torn"} : Kill(point)

SpecCrash == Init /\ [][NextCrash]_vars

\* ------------------------------------------- snapshot primitives (core/)

\* Depot paths of the files a changelist may shelve; two share a basename.
DepotPaths == {<<"a", "f">>, <<"a", "g">>, <<"b", "f">>}
\* Path(depot_file).name
Name(depot_file) == depot_file[2]
Names == {Name(p) : p \in DepotPaths}
\* The shelved file sets before the first call: at most two files.
SnapShapes == {S \in SUBSET DepotPaths : Cardinality(S) <= 2}
\* The contents a caller may ask for in a file of changelist cl.
ContentsOf(cl) == {{Tok(cl)}, {Tok(cl), FixTok}}
\* Snapshot: basename -> content
SnapshotsFor(cl) == UNION {[N -> ContentsOf(cl)] : N \in SUBSET Names}
\* FileToDepot: basename -> depot path
FileToDepots ==
  {m \in UNION {[N -> DepotPaths] : N \in SUBSET Names} :
     \A n \in DOMAIN m : Name(m[n]) = n}

\* The changelists the snapshot primitives are called on.
SnapCLs == {1}

NoCall == [fn |-> "none"]
NoResult == [returned |-> FALSE]
Returned(snapshot, filename_to_depot) ==
  [returned |-> TRUE, snapshot |-> snapshot, map |-> filename_to_depot]

\* The exception a P4Connection method raises for a failed VCS call:
\* P4LoginRequiredError when _is_login_error, else P4OperationError.
KindOf(o) == IF o = "login" THEN "login-required" ELSE "operation-failed"

\* Mutant: the except clause lets the exception through as it is.
ReRaised_Same(kind) == kind

\* `except Exception as e: ... raise P4OperationError(...)` in get_cl_snapshot
\* and commit_snapshot_to_cl: whatever was raised inside the try block leaves
\* the function as P4OperationError.
ReRaised(kind) == "operation-failed"

\* The loop of get_cl_snapshot over the files p4 print returned: both maps are
\* keyed by basename, and a later file replaces an earlier one with the same
\* basename.  The server's order of the files is not fixed here.
ParsedPrints(shelved) ==
  LET names == {Name(p) : p \in DOMAIN shelved}
  IN {Returned([n \in names |-> shelved[pick[n]]], pick) :
        pick \in {m \in [names -> DOMAIN shelved] :
                    \A n \in names : Name(m[n]) = n}}

\* Mutant: the revert leaves the files opened.
revert_Noop(w, cl_num) == w

\* P4Connection.revert(cl_num): p4 revert -c cl_num //...
revert(w, cl_num) == [p \in DOMAIN w \ OpenedIn(w, cl_num) |-> w[p]]

\* P4Connection.run_edit(cl_num, *files): the files are opened for edit in
\* cl_num with the content they have in the depot.
run_edit(w, cl_num, files) ==
  [p \in DOMAIN w \cup files |->
     IF p \in files THEN [cl |-> cl_num, content |-> {}, action |-> "edit"]
     ELSE w[p]]

\* local_file.write_text(new_snapshot[filename])
write_text(w, depot_path, content) ==
  [w EXCEPT ![depot_path].content = content]

\* P4Connection.run_delete_files(cl_num, *files)
run_delete_files(w, cl_num, files) ==
  [p \in DOMAIN w \cup files |->
     IF p \in files THEN [cl |-> cl_num, content |-> {}, action |-> "delete"]
     ELSE w[p]]

\* P4Connection.shelve(cl_num, force, delete): with delete the shelf is
\* removed; with force every file opened in cl_num replaces its shelved copy,
\* a file opened for delete leaves no shelved content, other shelved files
\* stay.
shelve(w, cl_num, force, delete) ==
  IF delete THEN NoFiles
  ELSE LET opened == OpenedIn(w, cl_num)
           gone == {p \in opened : w[p].action = "delete"}
       IN [p \in (DOMAIN shelf[cl_num] \cup opened) \ gone |->
             IF p \in opened THEN w[p].content ELSE shelf[cl_num][p]]

\* files_to_edit, files_to_add, files_to_delete of commit_snapshot_to_cl
files_to_edit(new_snapshot, original_snapshot) ==
  {f \in DOMAIN original_snapshot \cap DOMAIN new_snapshot :
     original_snapshot[f] # new_snapshot[f]}
files_to_add(new_snapshot, original_snapshot) ==
  DOMAIN new_snapshot \ DOMAIN original_snapshot

\* Mutant: every file of the original snapshot is deleted.
files_to_delete_All(new_snapshot, original_snapshot) ==
  DOMAIN original_snapshot

files_to_delete(new_snapshot, original_snapshot) ==
  DOMAIN original_snapshot \ DOMAIN new_snapshot

\* Mutant: only the files that changed are written.
files_to_write_EditsOnly(new_snapshot, original_snapshot) ==
  files_to_edit(new_snapshot, original_snapshot)

files_to_write_AddsOnly(new_snapshot, original_snapshot) ==
  files_to_add(new_snapshot, original_snapshot)
files_to_write(new_snapshot, original_snapshot) ==
  files_to_edit(new_snapshot, original_snapshot)
    \cup files_to_add(new_snapshot, original_snapshot)

\* Before the first call: every changelist shelves the same files, each with
\* the changelist's own edit; nothing is opened.
InitSnap ==
  /\ desc = [c \in CLs |-> <<>>]
  /\ \E S \in SnapShapes : shelf = [c \in CLs |-> [p \in S |-> {Tok(c)}]]
  /\ ws = NoFiles
  /\ log = NoLog
  /\ pc = "idle"
  /\ cmd = [cont |-> FALSE, cl |-> None]
  /\ state = NoLog
  /\ todo = <<>>
  /\ cur = None
  /\ nodes = NoFiles
  /\ log0 = NoLog
  /\ shelf0 = shelf
  /\ ws0 = NoFiles
  /\ processed = <<>>
  /\ edited = {}
  /\ ops = {}
  /\ fault = "none"
  /\ outcome = "none"
  /\ exitCode = 0
  /\ runs = 0
  /\ faults = 0
  /\ userR = [cl |-> None, snap |-> NoFiles]
  /\ shelvedCLs = <<>>
  /\ spc = "idle"
  /\ call = NoCall
  /\ trace = <<>>
  /\ raised = "none"
  /\ result = NoResult
  /\ towrite = {}
  /\ fpc = "none" /\ fin = <<>> /\ fout = <<>>

\* What a snapshot call leaves alone: the command layer's state.
engineVars == <<desc, log, pc, cmd, state, todo, cur, nodes, log0, ws0,
                processed, edited, ops, outcome, exitCode, userR, shelvedCLs,
                fpc, fin, fout>>

\* A caller invokes get_cl_snapshot(p4_conn, cl_num).  The call keeps, as
\* history, the call made before it, how that call ended and the shelves it
\* started from.
CallRead(cl_num) ==
  /\ spc = "idle"
  /\ runs < MaxRuns
  /\ runs' = runs + 1
  /\ call' = [fn |-> "get_cl_snapshot", cl |-> cl_num,
              prior |-> [call |-> call, raised |-> raised, shelf |-> shelf0]]
  /\ spc' = "print"
  /\ trace' = <<>> /\ raised' = "none" /\ result' = NoResult
  /\ fault' = "none" /\ towrite' = {}
  /\ shelf0' = shelf
  /\ UNCHANGED <<shelf, ws, faults>>
  /\ UNCHANGED engineVars

\* A caller invokes commit_snapshot_to_cl(p4_conn, cl_num, new_snapshot,
\* original_snapshot, filename_to_depot).  The original snapshot is one read
\* from the shelf, or empty.
CallWrite(cl_num, new_snapshot, original_snapshot, filename_to_depot) ==
  /\ spc = "idle"
  /\ runs < MaxRuns
  /\ runs' = runs + 1
  /\ call' = [fn |-> "commit_snapshot_to_cl", cl |-> cl_num,
              new_snapshot |-> new_snapshot,
              original_snapshot |-> original_snapshot,
              filename_to_depot |-> filename_to_depot]
  /\ spc' = "revert"
  /\ trace' = <<>> /\ raised' = "none" /\ result' = NoResult
  /\ fault' = "none" /\ towrite' = {}
  /\ shelf0' = shelf
  /\ UNCHANGED <<shelf, ws, faults>>
  /\ UNCHANGED engineVars

\* A VCS call of the snapshot primitive fails: the fault is recorded.
Inject(o) ==
  /\ fault' = o
  /\ faults' = IF faults < MaxFaults THEN faults + 1 ELSE faults

\* The outcomes of run_print(cl_num): the server answers "no such file(s)"
\* for a changelist without shelved files.
PrintOutcomes(cl_num) ==
  IF DOMAIN shelf[cl_num] = {}
  THEN {"no such file(s)"} \cup (Outcomes \ {"ok"})
  ELSE Outcomes

\* get_cl_snapshot: p4 print of the shelf, the parse loop, the except clause
\* (an error text with "no such file(s)" or "empty changelist" returns the
\* empty maps).
GetClSnapshot ==
  /\ spc = "print"
  /\ trace' = Append(trace, <<"print", {}>>)
  /\ \E o \in PrintOutcomes(call.cl) :
       IF o = "ok"
       THEN /\ \E r \in ParsedPrints(shelf[call.cl]) : result' = r
            /\ UNCHANGED <<raised, fault, faults>>
       ELSE IF o = "no such file(s)"
       THEN /\ result' = Returned(NoFiles, NoFiles)
            /\ UNCHANGED <<raised, fault, faults>>
       ELSE /\ raised' = ReRaised(KindOf(o))
            /\ Inject(o)
            /\ result' = result
  /\ spc' = "idle"
  /\ UNCHANGED <<shelf, ws, shelf0, runs, call, towrite>>
  /\ UNCHANGED engineVars

\* The try block of commit_snapshot_to_cl raises: the except clause runs,
\* then the finally clause.
RaiseInTry(kind) ==
  /\ raised' = ReRaised(kind)
  /\ spc' = "finally"

\* commit_snapshot_to_cl: p4_conn.revert(cl_num) at the head of the try block
CommitRevert ==
  /\ spc = "revert"
  /\ trace' = Append(trace, <<"revert", {}>>)
  /\ \E o \in Outcomes :
       IF o = "ok"
       THEN /\ ws' = revert(ws, call.cl)
            /\ spc' = "edit"
            /\ UNCHANGED <<raised, fault, faults>>
       ELSE /\ RaiseInTry(KindOf(o))
            /\ Inject(o)
            /\ ws' = ws
  /\ UNCHANGED <<shelf, shelf0, runs, call, result, towrite>>
  /\ UNCHANGED engineVars

\* commit_snapshot_to_cl, "Handle Adds/Edits": the depot paths of the files
\* to write (a basename missing from the map raises), then run_edit
CommitEdit ==
  /\ spc = "edit"
  /\ LET to_write == files_to_write(call.new_snapshot, call.original_snapshot)
         depot_paths == {call.filename_to_depot[f] :
                           f \in to_write \cap DOMAIN call.filename_to_depot}
     IN IF to_write = {}
        THEN /\ spc' = "delete"
             /\ UNCHANGED <<ws, trace, raised, fault, faults, towrite>>
        ELSE IF ~(to_write \subseteq DOMAIN call.filename_to_depot)
        THEN /\ RaiseInTry("operation-failed")
             /\ UNCHANGED <<ws, trace, fault, faults, towrite>>
        ELSE /\ trace' = Append(trace, <<"edit", depot_paths>>)
             /\ \E o \in Outcomes :
                  IF o = "ok"
                  THEN /\ ws' = run_edit(ws, call.cl, depot_paths)
                       /\ towrite' = to_write
                       /\ spc' = "where"
                       /\ UNCHANGED <<raised, fault, faults>>
                  ELSE /\ RaiseInTry(KindOf(o))
                       /\ Inject(o)
                       /\ UNCHANGED <<ws, towrite>>
  /\ UNCHANGED <<shelf, shelf0, runs, call, result>>
  /\ UNCHANGED engineVars

\* commit_snapshot_to_cl, the loop over files_to_write: run_where (which
\* returns no mapping when the VCS call fails, for any reason), then the new
\* content is written to the local file
CommitWriteFile ==
  /\ spc = "where"
  /\ IF towrite = {}
     THEN /\ spc' = "delete"
          /\ UNCHANGED <<ws, trace, raised, fault, faults, towrite>>
     ELSE \E filename \in towrite :
            LET depot_path == call.filename_to_depot[filename]
            IN /\ trace' = Append(trace, <<"where", {depot_path}>>)
               /\ \E o \in Outcomes :
                    IF o = "ok"
                    THEN /\ ws' = write_text(ws, depot_path,
                                             call.new_snapshot[filename])
                         /\ towrite' = towrite \ {filename}
                         /\ spc' = spc
                         /\ UNCHANGED <<raised, fault, faults>>
                    ELSE /\ RaiseInTry("operation-failed")
                         /\ Inject(o)
                         /\ UNCHANGED <<ws, towrite>>
  /\ UNCHANGED <<shelf, shelf0, runs, call, result>>
  /\ UNCHANGED engineVars

\* commit_snapshot_to_cl, "Handle Deletes": filename_to_depot[f] for every
\* file to delete (a missing basename raises KeyError), then run_delete_files
CommitDelete ==
  /\ spc = "delete"
  /\ LET to_delete == files_to_delete(call.new_snapshot,
                                      call.original_snapshot)
         depot_paths == {call.filename_to_depot[f] :
                           f \in to_delete \cap DOMAIN call.filename_to_depot}
     IN IF to_delete = {}
        THEN /\ spc' = "shelve"
             /\ UNCHANGED <<ws, trace, raised, fault, faults>>
        ELSE IF ~(to_delete \subseteq DOMAIN call.filename_to_depot)
        THEN /\ RaiseInTry("operation-failed")
             /\ UNCHANGED <<ws, trace, fault, faults>>
        ELSE /\ trace' = Append(trace, <<"delete", depot_paths>>)
             /\ \E o \in Outcomes :
                  IF o = "ok"
                  THEN /\ ws' = run_delete_files(ws, call.cl, depot_paths)
                       /\ spc' = "shelve"
                       /\ UNCHANGED <<raised, fault, faults>>
                  ELSE /\ RaiseInTry(KindOf(o))
                       /\ Inject(o)
                       /\ ws' = ws
  /\ UNCHANGED <<shelf, shelf0, runs, call, result, towrite>>
  /\ UNCHANGED engineVars

\* commit_snapshot_to_cl, "Commit to Shelf": shelve(force=True) when a file
\* was written or deleted, else shelve(delete=True) when the new snapshot is
\* empty and the original is not, else nothing
CommitShelve ==
  /\ spc = "shelve"
  /\ LET changed ==
           files_to_write(call.new_snapshot, call.original_snapshot)
             \cup files_to_delete(call.new_snapshot, call.original_snapshot)
         force == changed # {}
         delete == changed = {} /\ DOMAIN call.new_snapshot = {}
                                /\ DOMAIN call.original_snapshot # {}
     IN IF ~force /\ ~delete
        THEN /\ spc' = "finally"
             /\ UNCHANGED <<shelf, trace, raised, fault, faults>>
        ELSE /\ trace' = Append(trace, <<IF force THEN "shelve -f"
                                                   ELSE "shelve -d", {}>>)
             /\ \E o \in Outcomes :
                  IF o = "ok"
                  THEN /\ shelf' = [shelf EXCEPT ![call.cl] =
                                      shelve(ws, call.cl, force, delete)]
                       /\ spc' = "finally"
                       /\ UNCHANGED <<raised, fault, faults>>
                  ELSE /\ RaiseInTry(KindOf(o))
                       /\ Inject(o)
                       /\ shelf' = shelf
  /\ UNCHANGED <<ws, shelf0, runs, call, result, towrite>>
  /\ UNCHANGED engineVars

\* commit_snapshot_to_cl, the finally clause: p4_conn.revert(cl_num); an
\* exception it raises replaces the one in flight
CommitFinally ==
  /\ spc = "finally"
  /\ trace' = Append(trace, <<"revert", {}>>)
  /\ \E o \in Outcomes :
       IF o = "ok"
       THEN /\ ws' = revert(ws, call.cl)
            /\ UNCHANGED <<raised, fault, faults>>
       ELSE /\ raised' = KindOf(o)
            /\ Inject(o)
            /\ ws' = ws
  /\ spc' = "idle"
  /\ UNCHANGED <<shelf, shelf0, runs, call, result, towrite>>
  /\ UNCHANGED engineVars

NextSnap ==
  \/ \E c \in SnapCLs : CallRead(c)
  \/ \E c \in SnapCLs : \E new \in SnapshotsFor(c) :
       \E orig \in {NoFiles} \cup {r.snapshot : r \in ParsedPrints(shelf[c])} :
         \E m \in FileToDepots : CallWrite(c, new, orig, m)
  \/ GetClSnapshot
  \/ CommitRevert
  \/ CommitEdit
  \/ CommitWriteFile
  \/ CommitDelete
  \/ CommitShelve
  \/ CommitFinally

SpecSnap == InitSnap /\ [][NextSnap]_vars

\* ------------------------------------------------------- description text

\* A description is a sequence of characters.  The literal "Depends-On:" of
\* DEPENDS_ON_RE is written as two characters, "D" for "Depends-" and "O" for
\* "On:", each in upper or lower case (re.IGNORECASE); " " and "\n" are the
\* characters of \s, DigitChars those of \d, "x" is any other character.
Whitespace == {" ", "\n"}
DigitChars == {"0", "1", "2", "3", "4", "5", "6", "7", "8", "9"}
\* str(cl_num) of a changelist number below ten
StrOf(cl_num) == <<<<"1", "2", "3", "4", "5", "6", "7", "8", "9">>[cl_num]>>

RECURSIVE SkipWhile(_, _, _)
\* the first position from i on whose character is not in class
SkipWhile(text, i, class) ==
  IF i <= Len(text) /\ text[i] \in class
  THEN SkipWhile(text, i + 1, class)
  ELSE i

\* DEPENDS_ON_RE matched at position i: the position after the match
\* `Depends-On:\s*(\d+)`, 0 when the pattern does not match there.
DEPENDS_ON_RE(text, i) ==
  IF i + 1 <= Len(text) /\ text[i] \in {"D", "d"} /\ text[i + 1] \in {"O", "o"}
  THEN LET j == SkipWhile(text, i + 2, Whitespace)
           k == SkipWhile(text, j, DigitChars)
       IN IF k > j THEN k ELSE 0
  ELSE 0

\* match.group(1) of the match at position i
Group1(text, i) ==
  SubSeq(text, SkipWhile(text, i + 2, Whitespace), DEPENDS_ON_RE(text, i) - 1)

RECURSIVE finditer(_, _)
\* The non-overlapping matches from position i on, leftmost first, each as
\* <<start, position after the end>>.
finditer(text, i) ==
  IF i > Len(text) THEN <<>>
  ELSE IF DEPENDS_ON_RE(text, i) = 0 THEN finditer(text, i + 1)
  ELSE <<<<i, DEPENDS_ON_RE(text, i)>>>> \o finditer(text, DEPENDS_ON_RE(text, i))

\* The numbers of the tags of a description, in order of appearance.
findall(text) ==
  LET m == finditer(text, 1)
  IN [n \in 1..Len(m) |-> Group1(text, m[n][1])]

\* The changelist a tag's number names: `parent_cl_num in changes_map` compares
\* strings, so a number that is not str() of a pending CL names none of them.
ClOf(digits) ==
  IF \E c \in CLs : StrOf(c) = digits
  THEN CHOOSE c \in CLs : StrOf(c) = digits
  ELSE Ghost

\* change.get('desc') as the engine's model reads it: the changelists its
\* tags name, in order.
TagsOf(text) ==
  LET tags == findall(text) IN [n \in 1..Len(tags) |-> ClOf(tags[n])]

\* `Depends-On: <cl>` written with the first half in the given case
TagText(k, cl) == <<k, IF k = "D" THEN "O" ELSE "o", " ">> \o StrOf(cl)

\* ------------------------------------------------- callers of the graph

\* The descriptions of the pending changelists: no text, one piece, or two
\* pieces on two lines.  A first piece is a word or a tag naming a pending or
\* a non-pending changelist, in upper or in lower case; a second piece is a
\* word or a tag naming the first or the last pending changelist.
UpperPieces == {<<"x">>} \cup {TagText("D", p) : p \in 1..Ghost}
LowerPieces == {TagText("d", p) : p \in {1, Ghost}}
SecondPieces == {<<"x">>, TagText("D", 1), TagText("D", MaxCL)}
DescTexts ==
  {<<>>} \cup UpperPieces \cup LowerPieces
    \cup {a \o <<"\n">> \o b : a \in UpperPieces \cup LowerPieces,
                               b \in SecondPieces}

\* Every variable of the command layer and of the snapshot primitives.
ioVars == <<desc, shelf, ws, log, pc, cmd, state, todo, cur, nodes, log0,
            shelf0, ws0, processed, edited, ops, fault, faults, outcome,
            exitCode, runs, userR, shelvedCLs, snapVars>>

\* No command and no snapshot primitive has run or runs.
InitIo ==
  /\ desc = [c \in CLs |-> <<>>]
  /\ shelf = [c \in CLs |-> NoFiles]
  /\ ws = NoFiles
  /\ log = NoLog
  /\ pc = "idle"
  /\ cmd = [cont |-> FALSE, cl |-> None]
  /\ state = NoLog
  /\ todo = <<>>
  /\ cur = None
  /\ nodes = NoFiles
  /\ log0 = NoLog
  /\ shelf0 = shelf
  /\ ws0 = NoFiles
  /\ processed = <<>>
  /\ edited = {}
  /\ ops = {}
  /\ fault = "none"
  /\ outcome = "none"
  /\ exitCode = 0
  /\ runs = 0
  /\ faults = 0
  /\ userR = [cl |-> None, snap |-> NoFiles]
  /\ shelvedCLs = <<>>
  /\ spc = "idle"
  /\ call = NoCall
  /\ trace = <<>>
  /\ raised = "none"
  /\ result = NoResult
  /\ towrite = {}

\* p4.get_pending_changelists() returned one change per pending CL.
InitGraph ==
  /\ InitIo
  /\ fpc = "changes"
  /\ fin \in [CLs -> DescTexts]
  /\ fout = <<>>

\* graph = build_stack_graph(raw_changes)
BuildGraph ==
  /\ fpc = "changes"
  /\ fpc' = "graph"
  /\ fout' = [graph |-> build_stack_graph([c \in CLs |-> TagsOf(fin[c])]),
              base |-> None,
              stack |-> <<>>]
  /\ UNCHANGED <<fin, ioVars>>

\* base_node = _find_node_in_graph(base_cl_num, graph) finds the node;
\* stack_to_update = _get_stack_from_node(base_node)
GetStack(base_cl_num) ==
  /\ fpc = "graph"
  /\ _find_node_in_graph(base_cl_num, fout.graph) # None
  /\ fpc' = "stack"
  /\ fout' = [fout EXCEPT !.base = base_cl_num,
                          !.stack = _get_stack_from_node(base_cl_num, fout.graph)]
  /\ UNCHANGED <<fin, ioVars>>

NextGraph ==
  \/ BuildGraph
  \/ \E base_cl_num \in CLs : GetStack(base_cl_num)

SpecGraph == InitGraph /\ [][NextGraph]_vars

\* ------------------------------------------- callers of set_depends_on

\* DEPENDS_ON_RE.sub("", text): the text without its non-overlapping matches,
\* in one pass from the left.
RECURSIVE DEPENDS_ON_RE_sub(_)
DEPENDS_ON_RE_sub(text) ==
  IF text = <<>> THEN <<>>
  ELSE IF DEPENDS_ON_RE(text, 1) = 0
       THEN <<Head(text)>> \o DEPENDS_ON_RE_sub(Tail(text))
       ELSE DEPENDS_ON_RE_sub(SubSeq(text, DEPENDS_ON_RE(text, 1), Len(text)))

RECURSIVE strip(_)
\* str.strip(): without the leading and the trailing whitespace
strip(text) ==
  IF text = <<>> THEN <<>>
  ELSE IF Head(text) \in Whitespace THEN strip(Tail(text))
  ELSE IF Last(text) \in Whitespace THEN strip(Front(text))
  ELSE text

set_depends_on_Keep(description, new_parent_cl) == description
set_depends_on_Append(description, new_parent_cl) ==
  description \o <<"\n", "\n", "D", "O", " ">> \o new_parent_cl
\* f"{clean_desc}\n\nDepends-On: {new_parent_cl}"
set_depends_on(description, new_parent_cl) ==
  strip(DEPENDS_ON_RE_sub(description))
    \o <<"\n", "\n", "D", "O", " ">> \o new_parent_cl

\* The characters of a description: both cases of the tag's first half, its
\* second half, a newline, a digit and another character.
DescChars == {"D", "d", "O", "\n", "1", "x"}
\* Every description of at most MaxText characters.
Descriptions == UNION {[1..n -> DescChars] : n \in 0..MaxText}
\* The new parent is the CL an old tag names or another one.
NewParents == {StrOf(1), StrOf(2)}

\* cl_spec.get('Description', '') and the new parent's number
InitDesc ==
  /\ InitIo
  /\ fpc = "description"
  /\ \E d \in Descriptions, p \in NewParents :
       fin = [description |-> d, new_parent_cl |-> p]
  /\ fout = <<>>

\* cl_spec['Description'] = set_depends_on(description, new_parent_cl)
SetDependsOn ==
  /\ fpc = "description"
  /\ fpc' = "once"
  /\ fout' = [once |-> set_depends_on(fin.description, fin.new_parent_cl),
              twice |-> <<>>]
  /\ UNCHANGED <<fin, ioVars>>

\* The same parent is set again on the updated description.
SetDependsOnAgain ==
  /\ fpc = "once"
  /\ fpc' = "twice"
  /\ fout' = [fout EXCEPT !.twice = set_depends_on(fout.once, fin.new_parent_cl)]
  /\ UNCHANGED <<fin, ioVars>>

NextDesc == SetDependsOn \/ SetDependsOnAgain

SpecDesc == InitDesc /\ [][NextDesc]_vars

\* --------------------------------------------------- three-way merge (core/)

\* File contents handed to the merge: the empty text, one line, another line,
\* the first line with a carriage return before its newline, and the first
\* line with a NUL character in it.
MergeContents ==
  {<<>>, <<"a", "\n">>, <<"b", "\n">>, <<"a", "\r", "\n">>,
   <<"a", "NUL", "\n">>}
\* Snapshot: basename -> content
MergeSnapshots == UNION {[S -> MergeContents] : S \in SUBSET Names}

RECURSIVE universal_newlines(_)
\* subprocess.run(..., text=True) decodes the tool's output with universal
\* newlines: "\r\n" and a lone "\r" are read as "\n".
universal_newlines(text) ==
  IF text = <<>> THEN <<>>
  ELSE IF Head(text) = "\r"
       THEN <<"\n">> \o universal_newlines(
              IF Len(text) >= 2 /\ text[2] = "\n" THEN Tail(Tail(text))
              ELSE Tail(text))
       ELSE <<Head(text)>> \o universal_newlines(Tail(text))

\* diff3 -m -E MYFILE OLDFILE YOURFILE on texts of at most one line.  The
\* tool compares the old file with each side; a comparison of two different
\* files of which one holds a NUL character fails ("Binary files differ"):
\* nothing is written and the exit status is 2.  Otherwise a side that equals
\* the old file gives way to the other, equal sides merge, and any other
\* triple overlaps: the output brackets both sides between conflict markers
\* ("<", "=", ">") and the exit status is 1.
diff3(mine, old, yours) ==
  IF \E side \in {mine, yours} :
       side # old /\ "NUL" \in Range(side) \cup Range(old)
  THEN [stdout |-> <<>>, returncode |-> 2]
  ELSE IF mine = yours THEN [stdout |-> mine, returncode |-> 0]
  ELSE IF mine = old THEN [stdout |-> yours, returncode |-> 0]
  ELSE IF yours = old THEN [stdout |-> mine, returncode |-> 0]
  ELSE [stdout |-> <<"<">> \o mine \o <<"=">> \o yours \o <<">">>,
        returncode |-> 1]

\* _three_way_merge_file: (merged_content, has_conflict)
_three_way_merge_file(base, ours, theirs) ==
  LET proc == diff3(ours, base, theirs)
  IN <<universal_newlines(proc.stdout), proc.returncode = 1>>

\* folder.get(file_path) or "", as _three_way_merge_file writes it
OrEmpty(folder, file_path) ==
  IF file_path \in DOMAIN folder THEN folder[file_path] ELSE <<>>

\* The rule of three_way_merge_folder's loop body that handles the file, 0
\* when the file falls through to _three_way_merge_file.
RuleOf_NoAdds(file_path, base_folder, ours_folder, theirs_folder) ==
  LET in_base == file_path \in DOMAIN base_folder
      in_ours == file_path \in DOMAIN ours_folder
      in_theirs == file_path \in DOMAIN theirs_folder
  IN IF in_base /\ ~in_ours /\ in_theirs
          /\ theirs_folder[file_path] = base_folder[file_path] THEN 3
     ELSE IF in_base /\ ~in_theirs /\ in_ours
          /\ ours_folder[file_path] = base_folder[file_path] THEN 4
     ELSE IF in_base /\ ~in_ours /\ ~in_theirs THEN 5
     ELSE 0

\* Mutant: a file that ours deleted is left out whatever theirs holds.
RuleOf_DeleteWins(file_path, base_folder, ours_folder, theirs_folder) ==
  LET in_base == file_path \in DOMAIN base_folder
      in_ours == file_path \in DOMAIN ours_folder
      in_theirs == file_path \in DOMAIN theirs_folder
  IN IF ~in_base /\ ~in_theirs /\ in_ours THEN 1
     ELSE IF ~in_base /\ in_theirs /\ ~in_ours THEN 2
     ELSE IF in_base /\ ~in_ours /\ in_theirs THEN 3
     ELSE IF in_base /\ ~in_theirs /\ in_ours
          /\ ours_folder[file_path] = base_folder[file_path] THEN 4
     ELSE IF in_base /\ ~in_ours /\ ~in_theirs THEN 5
     ELSE 0

RuleOf(file_path, base_folder, ours_folder, theirs_folder) ==
  LET in_base == file_path \in DOMAIN base_folder
      in_ours == file_path \in DOMAIN ours_folder
      in_theirs == file_path \in DOMAIN theirs_folder
  IN IF ~in_base /\ ~in_theirs /\ in_ours THEN 1
     ELSE IF ~in_base /\ in_theirs /\ ~in_ours THEN 2
     ELSE IF in_base /\ ~in_ours /\ in_theirs
          /\ theirs_folder[file_path] = base_folder[file_path] THEN 3
     ELSE IF in_base /\ ~in_theirs /\ in_ours
          /\ ours_folder[file_path] = base_folder[file_path] THEN 4
     ELSE IF in_base /\ ~in_ours /\ ~in_theirs THEN 5
     ELSE 0

\* The files three_way_merge_folder runs the merge tool for.
MergeToolCalls(base_folder, ours_folder, theirs_folder) ==
  {file_path \in DOMAIN base_folder \cup DOMAIN ours_folder
                   \cup DOMAIN theirs_folder :
     RuleOf(file_path, base_folder, ours_folder, theirs_folder) = 0}

\* three_way_merge_folder: file name -> (merged_content, has_conflict)
three_way_merge_folder(base_folder, ours_folder, theirs_folder) ==
  LET all_files == DOMAIN base_folder \cup DOMAIN ours_folder
                     \cup DOMAIN theirs_folder
      rule(f) == RuleOf(f, base_folder, ours_folder, theirs_folder)
  IN [file_path \in {f \in all_files : rule(f) \in {0, 1, 2}} |->
        IF rule(file_path) = 1 THEN <<ours_folder[file_path], FALSE>>
        ELSE IF rule(file_path) = 2 THEN <<theirs_folder[file_path], FALSE>>
        ELSE _three_way_merge_file(OrEmpty(base_folder, file_path),
                                   OrEmpty(ours_folder, file_path),
                                   OrEmpty(theirs_folder, file_path))]

\* A caller holds three snapshots.
InitMerge ==
  /\ InitIo
  /\ fpc = "folders"
  /\ \E b, o, t \in MergeSnapshots :
       fin = [base_folder |-> b, ours_folder |-> o, theirs_folder |-> t]
  /\ fout = <<>>

\* merged = three_way_merge_folder(base_folder, ours_folder, theirs_folder)
MergeFolders ==
  /\ fpc = "folders"
  /\ fpc' = "merged"
  /\ fout' = [merged |-> three_way_merge_folder(fin.base_folder,
                           fin.ours_folder, fin.theirs_folder),
              diff3_calls |-> MergeToolCalls(fin.base_folder,
                                fin.ours_folder, fin.theirs_folder)]
  /\ UNCHANGED <<fin, ioVars>>

NextMerge == MergeFolders

SpecMerge == InitMerge /\ [][NextMerge]_vars

\* ----------------------------------------------------------------- submit

\* `p4-stack submit c1 .. cn` up to the head of the loop: nothing is
\* submitted, current_parent_cl_num = None.  The stack names pending CLs,
\* each at most once and at least one; a description is empty, a word, a tag
\* in upper or in lower case, or a text whose halves around a tag join into
\* a tag once that tag is removed.
InitSubmit ==
  /\ InitIo
  /\ fpc = "patch"
  /\ LET descs == {<<>>, <<"x">>, TagText("D", 1), TagText("d", MaxCL),
                   <<"D", "D", "O", "1", "O", "1">>}
         stacks == {s \in UNION {[1..n -> CLs] : n \in 1..MaxCL} :
                      \A i, j \in 1..Len(s) : s[i] = s[j] => i = j}
     IN \E s \in stacks, d \in [CLs -> descs] :
          /\ fin = [stack |-> s, desc |-> d]
          /\ fout = [i |-> 1, current_parent_cl_num |-> None, desc |-> d,
                     submitted |-> <<>>, warned |-> {}, highest |-> MaxCL,
                     ended |-> FALSE, code |-> 0]

\* The loop body up to the unshelve: when a CL was submitted before, the
\* description of pending_cl_num is fetched, rewritten and saved; a
\* P4Exception of either call (a login error is one) is reported as a
\* warning and the loop body goes on.
SubmitPatch ==
  /\ fpc = "patch"
  /\ fpc' = "submit"
  /\ LET pending_cl_num == fin.stack[fout.i]
     IN IF fout.current_parent_cl_num = None
        THEN fout' = fout
        ELSE \E o \in {"ok", "fail"} :
               fout' =
                 IF o = "ok"
                 THEN [fout EXCEPT !.desc[pending_cl_num] =
                         set_depends_on(fout.desc[pending_cl_num],
                                        StrOf(fout.current_parent_cl_num))]
                 ELSE [fout EXCEPT !.warned = @ \cup {pending_cl_num}]
  /\ UNCHANGED <<fin, ioVars>>

\* The rest of the loop body: p4.unshelve, the raw `shelve -d` (its P4
\* library exception is not the P4Exception the except clause names),
\* p4.submit_changelist, p4.revert_all (its failure is ignored).  The server
\* keeps the number of a CL that is the newest change and gives any other CL
\* the next number.  A failure before the submit ends the command: login
\* required with exit code 0, anything else with exit code 1.
SubmitOne ==
  /\ fpc = "submit"
  /\ LET pending_cl_num == fin.stack[fout.i]
         new_submitted_cl == IF pending_cl_num = fout.highest
                             THEN pending_cl_num ELSE fout.highest + 1
     IN \E o \in AllOutcomes :
          IF o = "ok"
          THEN /\ fout' = [fout EXCEPT
                     !.submitted = Append(@,
                        [cl |-> pending_cl_num, as |-> new_submitted_cl,
                         desc |-> fout.desc[pending_cl_num]]),
                     !.current_parent_cl_num = new_submitted_cl,
                     !.highest = new_submitted_cl,
                     !.i = @ + 1]
               /\ fpc' = IF fout.i = Len(fin.stack) THEN "cleanup"
                         ELSE "patch"
          ELSE /\ fout' = [fout EXCEPT !.ended = TRUE,
                             !.code = IF o = "login" THEN 0 ELSE 1]
               /\ fpc' = "done"
  /\ UNCHANGED <<fin, ioVars>>

\* After the loop: typer.confirm, and on yes the cleanup of the pending CLs,
\* whose raw `shelve -d` may raise past the except clause.
SubmitCleanup ==
  /\ fpc = "cleanup"
  /\ fpc' = "done"
  /\ \E confirmed \in BOOLEAN, o \in {"ok", "fail"} :
       /\ (o = "fail" => confirmed)
       /\ fout' = [fout EXCEPT !.ended = TRUE,
                                !.code = IF o = "ok" THEN 0 ELSE 1]
  /\ UNCHANGED <<fin, ioVars>>

NextSubmit == SubmitPatch \/ SubmitOne \/ SubmitCleanup

SpecSubmit == InitSubmit /\ [][NextSubmit]_vars

\* ---------------------------------------------------- state file reader

\* The fields of the UpdateState dataclass, and those without a default
StateFields ==
  {"base_cl", "stack_to_update", "rebased_cls", "current_operation",
   "conflict_cl"}

RequiredFields == {"base_cl", "stack_to_update", "rebased_cls"}

\* The entries the engine saves: a stack of distinct CLs headed by base_cl,
\* a prefix of it in rebased_cls, conflict_cl None or the next CL
LogEntries ==
  {[UpdateState(s[1], s, SubSeq(s, 1, k)) EXCEPT !.conflict_cl = c] :
     <<s, k, c>> \in
       {x \in {t \in UNION {[1..n -> CLs] : n \in 1..2} :
                 \A i, j \in 1..Len(t) : t[i] = t[j] => i = j}
              \X (0..2) \X ({None} \cup CLs) :
          /\ x[2] <= Len(x[1])
          /\ x[3] # None => (x[2] < Len(x[1]) /\ x[3] = x[1][x[2] + 1])}}

\* No file at STATE_FILE
NoFile == [exists |-> FALSE, members |-> <<>>, closed |-> FALSE]

\* asdict(state): the members of the JSON object, in field order
asdict(st) ==
  << <<"base_cl", st.base_cl>>, <<"stack_to_update", st.stack_to_update>>,
     <<"rebased_cls", st.rebased_cls>>, <<"current_operation", "update">>,
     <<"conflict_cl", st.conflict_cl>> >>

\* json.dump(asdict(state), f): the whole object, closed by its brace
json_dump(st) == [exists |-> TRUE, members |-> asdict(st), closed |-> TRUE]

\* The file a process killed inside save_state leaves: open(.., 'w') has
\* truncated it and some or none of the members are written.
Truncations(st) ==
  {[exists |-> TRUE, members |-> SubSeq(asdict(st), 1, k), closed |-> FALSE] :
     k \in 0..Len(asdict(st))}

\* Files written by something else than save_state: an object with one
\* member left out, or with one member more.
ForeignFiles(st) ==
  {[exists |-> TRUE, closed |-> TRUE,
    members |-> SubSeq(asdict(st), 1, k - 1)
                  \o SubSeq(asdict(st), k + 1, Len(asdict(st)))] :
     k \in 1..Len(asdict(st))}
  \cup {[exists |-> TRUE, closed |-> TRUE,
         members |-> Append(asdict(st), <<"owner", st.base_cl>>)]}

\* UpdateState(**data): a keyword that is no field, or a field without a
\* default that is not given, is a TypeError; the other fields take their
\* defaults.
UpdateState_init(members) ==
  LET keys == {members[i][1] : i \in 1..Len(members)}
      val(k) == members[CHOOSE i \in 1..Len(members) : members[i][1] = k][2]
  IN IF ~(keys \subseteq StateFields) \/ ~(RequiredFields \subseteq keys)
     THEN [raised |-> "TypeError", value |-> NoLog]
     ELSE [raised |-> "none",
           value |-> [exists |-> TRUE,
                      base_cl |-> val("base_cl"),
                      stack_to_update |-> val("stack_to_update"),
                      rebased_cls |-> val("rebased_cls"),
                      current_operation |->
                        IF "current_operation" \in keys
                        THEN val("current_operation") ELSE "update",
                      conflict_cl |->
                        IF "conflict_cl" \in keys
                        THEN val("conflict_cl") ELSE None]]

\* load_state on a file: None when the file is missing, None when json.load
\* raises JSONDecodeError (the object is not closed), else UpdateState(**data)
\* whose TypeError no handler of load_state catches
LoadStateFile(file) ==
  IF ~file.exists THEN [raised |-> "none", value |-> NoLog]
  ELSE IF ~file.closed THEN [raised |-> "none", value |-> NoLog]
  ELSE UpdateState_init(file.members)

InitLog ==
  /\ InitIo
  /\ fpc = "file"
  /\ \E st \in LogEntries :
       \E file \in {NoFile} \cup ForeignFiles(st) :
         fin = [file |-> file, saved |-> NoLog]
  /\ fout = <<>>

\* save_state(st) runs to its end
SaveLog ==
  /\ fpc = "file"
  /\ \E st \in LogEntries : fin' = [file |-> json_dump(st), saved |-> st]
  /\ UNCHANGED <<fpc, fout, ioVars>>

\* save_state(st) is cut short by the end of the process
TearLog ==
  /\ fpc = "file"
  /\ \E st \in LogEntries :
       \E file \in Truncations(st) : fin' = [file |-> file, saved |-> NoLog]
  /\ UNCHANGED <<fpc, fout, ioVars>>

\* load_state()
LoadLog ==
  /\ fpc = "file"
  /\ fpc' = "loaded"
  /\ fout' = LoadStateFile(fin.file)
  /\ UNCHANGED <<fin, ioVars>>

NextLog == SaveLog \/ TearLog \/ LoadLog

SpecLog == InitLog /\ [][NextLog]_vars

\* ------------------------------------------------------------- properties

IsPrefix(a, b) == Len(a) <= Len(b) /\ a = SubSeq(b, 1, Len(a))

\* The elements of seq before the first occurrence of c.
PrefixBefore(seq, c) ==
  SubSeq(seq, 1, (CHOOSE i \in 1..Len(seq) : seq[i] = c /\
                     \A j \in 1..(i - 1) : seq[j] # c) - 1)

\* The elements of seq after the first occurrence of c.
After(seq, c) == Range(seq) \ (Range(PrefixBefore(seq, c)) \cup {c})

\* A run has ended and no other has started.
Ended == pc = "idle" /\ outcome \notin {"none", "running"}

\* The operations that touch a changelist's files.
Mutating == {"unshelve", "resolve", "shelve", "editor"}

\* The run is a --continue on a log that records a conflict.
ContinuesConflict == cmd.cont /\ outcome # "none" /\ log0 # NoLog
                     /\ log0.conflict_cl # None

\* C1: when a rebase finishes without conflict and without error, every CL of
\* stack_to_update is in rebased_cls and the log file is gone.
C1_SuccessClearsLog ==
  (Ended /\ outcome = "done") =>
     /\ log = NoLog
     /\ Range(state.stack_to_update) \subseteq Range(state.rebased_cls)

C1_Witness ==
  Ended /\ ~cmd.cont /\ outcome = "done" /\ Len(state.stack_to_update) = MaxCL

\* C2: when the merge of a descendant c conflicts, the run ends paused on c:
\* the log names c as conflict_cl, rebased_cls is exactly the part of
\* stack_to_update before c, no CL after c was started or had its shelf
\* changed, and the exit code is 0.
C2_ConflictPauses ==
  (Ended /\ outcome = "conflict") =>
     /\ log # NoLog
     /\ log.conflict_cl = cur
     /\ cur # log.base_cl
     /\ Last(processed) = cur
     /\ cur \notin Range(log.rebased_cls)
     /\ log.rebased_cls = PrefixBefore(log.stack_to_update, cur)
     /\ \A later \in After(log.stack_to_update, cur) :
          later \notin Range(processed) /\ shelf[later] = shelf0[later]
     /\ exitCode = 0

C2_Witness ==
  /\ Ended /\ outcome = "conflict"
  /\ log.rebased_cls # <<>>
  /\ After(log.stack_to_update, cur) # {}

\* C3: a --continue on a log with conflict_cl = c saves the log with conflict_cl
\* cleared and c appended to rebased_cls before it processes anything, then
\* processes the CLs of stack_to_update not in rebased_cls in order (all of
\* them when it completes); c is not merged again and not given to the editor.
C3_ContinueResumes ==
  ContinuesConflict =>
     LET c == log0.conflict_cl
         rest == FilterOut(log0.stack_to_update,
                           Range(log0.rebased_cls) \cup {c})
     IN /\ c \notin Range(processed)
        /\ c \notin edited
        /\ IsPrefix(processed, rest)
        /\ (pc = "loop" /\ processed = <<>>) =>
              log = [log0 EXCEPT !.conflict_cl = None,
                                 !.rebased_cls = Append(@, c)]
        /\ processed # <<>> =>
              IsPrefix(Append(log0.rebased_cls, c), state.rebased_cls)
        /\ (processed # <<>> /\ outcome # "done") => log = state
        /\ (Ended /\ outcome = "done") => processed = rest

C3_Witness ==
  ContinuesConflict /\ Ended /\ outcome = "done" /\ processed # <<>>

C5_LogExistsRefused ==
  (~cmd.cont /\ outcome # "none" /\ log0 # NoLog) =>
     /\ log = log0
     /\ shelf = shelf0
     /\ ops \cap Mutating = {}
     /\ Ended => (outcome = "log-exists" /\ exitCode = 1)

C5_Witness ==
  /\ ~cmd.cont /\ Ended /\ outcome = "log-exists"
  /\ log.conflict_cl # None
  /\ ws0 # NoFiles

\* C6: a --continue without a log fails with no-log (exit code 1): no log is
\* created, no editor is launched, nothing is unshelved, resolved or shelved.
C6_NoLogRefused ==
  (cmd.cont /\ outcome # "none" /\ log0 = NoLog) =>
     /\ log = NoLog
     /\ shelf = shelf0
     /\ ops \cap Mutating = {}
     /\ edited = {}
     /\ Ended => (outcome = "no-log" /\ exitCode = 1)

C6_Witness == cmd.cont /\ Ended /\ outcome = "no-log"

\* C7 (as claimed): a rebase on a base that is not a pending CL fails with
\* cl-not-in-stack before the log is written and before any CL is touched, and
\* every pending CL is accepted as a base.
C7_BaseAcceptedIffPending ==
  (~cmd.cont /\ Ended /\ log0 = NoLog /\ fault = "none") =>
     /\ cmd.cl \notin CLs =>
          /\ outcome = "cl-not-in-stack"
          /\ log = NoLog
          /\ shelf = shelf0
          /\ ops \cap Mutating = {}
     /\ cmd.cl \in CLs => outcome # "cl-not-in-stack"

C10_LoginStaysLoginRequired ==
  /\ (Ended /\ fault = "login") => (outcome = "login" /\ exitCode = 0)
  /\ (spc = "idle" /\ call # NoCall /\ fault = "login") =>
        raised = "login-required"

\* C11: if the process is killed at any point of a rebase, the log on disk is
\* readable and its rebased_cls lists exactly the CLs whose shelf the operation
\* has replaced; over the operation no CL has its step completed twice, and a
\* completed operation has completed the step of every CL of stack_to_update.
C11_LogMatchesCompletedSteps ==
  /\ (Ended /\ outcome = "killed" /\ log # NoLog) =>
        /\ load_state # NoLog
        /\ load_state.rebased_cls = shelvedCLs
  /\ \A i, j \in 1..Len(shelvedCLs) : shelvedCLs[i] = shelvedCLs[j] => i = j
  /\ (Ended /\ outcome = "done") =>
        Range(state.stack_to_update) \subseteq Range(shelvedCLs)

\* The number of the first tag of a description, in either case; no digits
\* when the description has no tag.
FirstTag(text) ==
  IF \E i \in 1..Len(text) : DEPENDS_ON_RE(text, i) # 0
  THEN LET i == CHOOSE i \in 1..Len(text) :
                  /\ DEPENDS_ON_RE(text, i) # 0
                  /\ \A j \in 1..(i - 1) : DEPENDS_ON_RE(text, j) = 0
       IN Group1(text, i)
  ELSE <<>>
\* The pending changelist the first tag of c's description names, or None.
NamedParent(c) ==
  IF \E p \in CLs : FirstTag(fin[c]) = StrOf(p)
  THEN CHOOSE p \in CLs : FirstTag(fin[c]) = StrOf(p)
  ELSE None
GraphBuilt == fpc \in {"graph", "stack"}

\* C12: in the built graph c is a child of p iff the first Depends-On tag of
\* c's description, in either case, names the pending changelist p; a CL with
\* no tag or whose first tag names no pending changelist is a root, and the
\* stack taken from such a CL without children is that CL alone.
C12_EdgeIffFirstTagPending ==
  GraphBuilt =>
    /\ \A c, p \in CLs :
         (c \in Range(fout.graph.node[p].children)) <=> (NamedParent(c) = p)
    /\ \A c \in CLs :
         NamedParent(c) = None => c \in Range(fout.graph.roots)
    /\ (/\ fpc = "stack"
        /\ NamedParent(fout.base) = None
        /\ fout.graph.node[fout.base].children = <<>>)
         => fout.stack = <<fout.base>>

\* C12 witness: the stack was taken from a childless CL whose tag, in lower
\* case, names a changelist that is not pending, while another CL has two
\* tags and is the child of the pending CL its first tag names.
C12_Witness ==
  /\ fpc = "stack"
  /\ fin[fout.base] = TagText("d", Ghost)
  /\ fout.stack = <<fout.base>>
  /\ \E c, p \in CLs :
       /\ Len(findall(fin[c])) = 2
       /\ findall(fin[c])[2] # StrOf(p)
       /\ c \in Range(fout.graph.node[p].children)

\* c is in the children list of p
Edge(p, c) == c \in Range(fout.graph.node[p].children)
Children(S) == {c \in CLs : \E p \in S : Edge(p, c)}
RECURSIVE Below(_, _)
\* the nodes reached from S by one to n child links
Below(S, n) ==
  IF n = 0 THEN {} ELSE Children(S) \cup Below(Children(S), n - 1)
Occurrences(s, c) == Cardinality({i \in 1..Len(s) : s[i] = c})

\* C13: the graph built by build_stack_graph is acyclic (no node is reached
\* from itself by child links), no node is in the children lists of two nodes
\* or twice in one list, and every node that is not a root has exactly one
\* parent.
C13_AcyclicSingleParent ==
  GraphBuilt =>
    /\ \A c \in CLs : c \notin Below({c}, MaxCL)
    /\ \A c \in CLs : Cardinality({p \in CLs : Edge(p, c)}) <= 1
    /\ \A c, p \in CLs : Occurrences(fout.graph.node[p].children, c) <= 1
    /\ \A c \in CLs :
         c \notin Range(fout.graph.roots) =>
           Cardinality({p \in CLs : Edge(p, c)}) = 1

\* The position of c in the traversal's list, 0 when it is not in it.
Pos(c) ==
  IF c \in Range(fout.stack)
  THEN CHOOSE i \in 1..Len(fout.stack) : fout.stack[i] = c
  ELSE 0

\* C14: the traversal from a base B of the graph returns a list that starts
\* with B, holds each CL at most once, holds exactly B and the CLs below B,
\* has every parent before each of its children and siblings in ascending
\* CL number; a B without children yields the list of B alone.
C14_TraversalParentFirst ==
  fpc = "stack" =>
    /\ fout.stack[1] = fout.base
    /\ \A c \in CLs : Occurrences(fout.stack, c) <= 1
    /\ Range(fout.stack) = {fout.base} \cup Below({fout.base}, MaxCL)
    /\ \A p, c \in Range(fout.stack) : Edge(p, c) => Pos(p) < Pos(c)
    /\ \A p, c, d \in Range(fout.stack) :
         (Edge(p, c) /\ Edge(p, d) /\ c < d) => Pos(c) < Pos(d)
    /\ fout.graph.node[fout.base].children = <<>> => fout.stack = <<fout.base>>

\* C14 witness: a traversal from a base with a child, over three CLs.
C14_Witness ==
  /\ fpc = "stack"
  /\ Len(fout.stack) = 3
  /\ \E c \in CLs : Edge(fout.base, c)

\* C15: set_depends_on is idempotent: setting the same parent on its own
\* result gives that result again.
C15_SetDependsOnIdempotent ==
  fpc = "twice" => fout.twice = fout.once

\* C16: the result of set_depends_on(d, p) holds exactly one Depends-On tag
\* and parse_depends_on of it is p, whatever tags d held.
C16_ExactlyOneTagNamingParent ==
  fpc \in {"once", "twice"} =>
    /\ Len(findall(fout.once)) = 1
    /\ parse_depends_on(findall(fout.once)) = fin.new_parent_cl

RECURSIVE SplitLines(_)
\* text.split("\n")
SplitLines(text) ==
  IF \E i \in 1..Len(text) : text[i] = "\n"
  THEN LET k == CHOOSE i \in 1..Len(text) :
                  text[i] = "\n" /\ \A j \in 1..(i - 1) : text[j] # "\n"
       IN <<SubSeq(text, 1, k - 1)>> \o SplitLines(SubSeq(text, k + 1, Len(text)))
  ELSE <<text>>
RECURSIVE JoinLines(_)
\* "\n".join(lines)
JoinLines(lines) ==
  IF lines = <<>> THEN <<>>
  ELSE IF Len(lines) = 1 THEN lines[1]
  ELSE lines[1] \o <<"\n">> \o JoinLines(Tail(lines))
HasNoTag(line) == findall(line) = <<>>
\* The text without its lines that hold a Depends-On tag.
WithoutTagLines(text) == JoinLines(SelectSeq(SplitLines(text), HasNoTag))

\* C17 (as claimed): removing the Depends-On lines from set_depends_on(d, p)
\* gives the same text as removing them from d.  The two texts are compared
\* without their leading and trailing whitespace, which is weaker than the
\* claim's equality.
C17_SameTextWithoutTagLines ==
  fpc \in {"once", "twice"} =>
    strip(WithoutTagLines(fout.once)) = strip(WithoutTagLines(fin.description))

\* The positions of a text that lie inside a match of DEPENDS_ON_RE.
Covered(text) ==
  LET m == finditer(text, 1)
  IN {i \in 1..Len(text) : \E n \in 1..Len(m) : m[n][1] <= i /\ i < m[n][2]}
\* The positions outside the matches, from the first to the last one that
\* holds no whitespace.
KeptPositions(text) ==
  LET solid == {i \in 1..Len(text) \ Covered(text) : text[i] \notin Whitespace}
  IN {i \in 1..Len(text) \ Covered(text) :
        \E a, b \in solid : a <= i /\ i <= b}
RECURSIVE TextAt(_, _)
\* the characters of the text at the given positions, in order
TextAt(text, positions) ==
  IF positions = {} THEN <<>>
  ELSE LET i == CHOOSE i \in positions : \A j \in positions : i <= j
       IN <<text[i]>> \o TextAt(text, positions \ {i})

\* C17 (amended): set_depends_on(d, p) is the text of d outside its Depends-On
\* matches (a match, not its line), without leading and trailing whitespace,
\* followed by an empty line and the tag naming p: every other character of d
\* is kept, in order.
C17_KeepsTextOutsideTags ==
  fpc \in {"once", "twice"} =>
    fout.once = TextAt(fin.description, KeptPositions(fin.description))
                  \o <<"\n", "\n", "D", "O", " ">> \o fin.new_parent_cl

\* C17 witness: the description starts with whitespace and holds a tag in a
\* line with other text, and that text is in the result.
C17_Witness ==
  /\ fpc = "once"
  /\ fin.description # <<>>
  /\ fin.description[1] \in Whitespace
  /\ \E i \in Covered(fin.description) :
       /\ i > 1 /\ fin.description[i - 1] = "x"
  /\ "x" \in Range(fout.once)

\* C18: the folder merge of three equal snapshots returns every basename of
\* the snapshot with its content unchanged and has_conflict = false, and no
\* other basename.
C18_EqualSnapshotsUnchanged ==
  (/\ fpc = "merged"
   /\ fin.ours_folder = fin.base_folder
   /\ fin.theirs_folder = fin.base_folder) =>
    /\ DOMAIN fout.merged = DOMAIN fin.base_folder
    /\ \A f \in DOMAIN fin.base_folder :
         fout.merged[f] = <<fin.base_folder[f], FALSE>>

\* A basename that is absent from base and present in exactly one of ours and
\* theirs.
AddedOnOneSide(f) ==
  /\ f \notin DOMAIN fin.base_folder
  /\ (f \in DOMAIN fin.ours_folder) # (f \in DOMAIN fin.theirs_folder)

\* C19: a basename absent from base and present in exactly one of ours and
\* theirs is in the result with that side's content and has_conflict = false,
\* and the merge tool is not run for it.
C19_OneSidedAddKept ==
  fpc = "merged" =>
    \A f \in Names :
      AddedOnOneSide(f) =>
        /\ f \in DOMAIN fout.merged
        /\ fout.merged[f] =
             <<IF f \in DOMAIN fin.ours_folder
               THEN fin.ours_folder[f] ELSE fin.theirs_folder[f], FALSE>>
        /\ f \notin fout.diff3_calls

\* C19 witness: one file is added by ours only and another by theirs only,
\* one of them with a carriage return in its content.
C19_Witness ==
  /\ fpc = "merged"
  /\ \E f, g \in Names :
       /\ AddedOnOneSide(f) /\ f \in DOMAIN fin.ours_folder
       /\ AddedOnOneSide(g) /\ g \in DOMAIN fin.theirs_folder
       /\ "\r" \in Range(fin.ours_folder[f])
       /\ DOMAIN fout.merged = {f, g}

\* The snapshot of a shelf whose files have distinct basenames.
SnapshotOf(shelved) ==
  [n \in {Name(p) : p \in DOMAIN shelved} |->
     shelved[CHOOSE p \in DOMAIN shelved : Name(p) = n]]
\* A read has returned, and the call before it was a write to the same CL
\* that succeeded, whose previous snapshot was the CL's shelf (no two shelved
\* files shared a basename) and whose map covers the keys of both snapshots.
ReadAfterWrite ==
  /\ spc = "idle"
  /\ call.fn = "get_cl_snapshot"
  /\ raised = "none"
  /\ result.returned
  /\ call.prior.call.fn = "commit_snapshot_to_cl"
  /\ call.prior.call.cl = call.cl
  /\ call.prior.raised = "none"
  /\ LET w == call.prior.call
         shelved == call.prior.shelf[w.cl]
     IN /\ \A p, q \in DOMAIN shelved : Name(p) = Name(q) => p = q
        /\ w.original_snapshot = SnapshotOf(shelved)
        /\ DOMAIN w.new_snapshot \cup DOMAIN w.original_snapshot
             \subseteq DOMAIN w.filename_to_depot
\* The write's map gave every shelved file the depot path it was shelved
\* under.
MapOfShelf ==
  LET w == call.prior.call
  IN \A n \in DOMAIN w.original_snapshot :
       w.filename_to_depot[n] \in DOMAIN call.prior.shelf[w.cl]

\* C20 (as claimed): a snapshot write followed by a read is a round trip: when
\* commit_snapshot_to_cl(cl, S, prev, map) succeeded, with prev the CL's shelf
\* and map covering the keys of S and prev, get_cl_snapshot(cl) returns a
\* snapshot equal to S.
C20_WriteThenReadRoundTrip ==
  ReadAfterWrite => result.snapshot = call.prior.call.new_snapshot

\* C20 (amended): the round trip holds when, in addition, the map gives every
\* basename of prev the depot path its file is shelved under.
C20_RoundTripWithMapOfShelf ==
  (ReadAfterWrite /\ MapOfShelf) =>
    result.snapshot = call.prior.call.new_snapshot

\* C20 witness: the read returned after a write that edited one shelved file
\* and deleted another.
C20_Witness ==
  /\ ReadAfterWrite
  /\ MapOfShelf
  /\ LET w == call.prior.call
     IN /\ files_to_edit(w.new_snapshot, w.original_snapshot) # {}
        /\ files_to_delete(w.new_snapshot, w.original_snapshot) # {}

\* The CLs submitted so far are the first CLs of the stack, in its order, and
\* a command that ended by a failure has submitted no CL after the failure.
SubmittedInListOrder ==
  /\ Len(fout.submitted) <= Len(fin.stack)
  /\ \A k \in 1..Len(fout.submitted) : fout.submitted[k].cl = fin.stack[k]
  /\ Len(fout.submitted) = fout.i - 1

InStep == pc \in {"base", "editor", "child", "parent", "resolve", "shelve"}

ChildStepCompletes == pc = "shelve" /\ pc' = "loop" /\ cur # state.base_cl

\* File-level three-way merge of edit sets: the edits both sides keep and the
\* edits either side made over base.
ThreeWay(b, o, t) == (o \cap t) \cup (o \ b) \cup (t \ b)

\* Folder-level three-way merge where base is ours restricted to the files of
\* theirs: a file of one side only is taken from that side, a file of both
\* is merged over ours' own version.
MergedOverOwnVersion(ours, theirs) ==
  [f \in DOMAIN ours \cup DOMAIN theirs |->
     IF f \notin DOMAIN theirs THEN ours[f]
     ELSE IF f \notin DOMAIN ours THEN theirs[f]
     ELSE ThreeWay(ours[f], ours[f], theirs[f])]

\* C23 (as claimed): a completed step on a descendant leaves its shelf equal
\* to the three-way merge of (base = the child's own version of the files the
\* parent touches, ours = the child's shelf, theirs = the parent's shelf) and
\* changes no other shelf.
C23_StepShelvesThreeWayMerge ==
  [][ChildStepCompletes =>
       /\ shelf'[cur] = MergedOverOwnVersion(shelf[cur],
                                             shelf[nodes[cur].parent_cl])
       /\ \A o \in CLs \ {cur} : shelf'[o] = shelf[o]]_vars

\* C23 (amended): a completed step on a descendant leaves in its shelf every
\* file shelved in both the child and the parent with the edits of both,
\* every file of the child alone as it was, and every file of the parent
\* alone with the parent's content, and changes no other shelf.
C23_StepShelvesBothSidesEdits ==
  [][ChildStepCompletes =>
       LET ours == shelf[cur]
           theirs == shelf[nodes[cur].parent_cl]
       IN /\ shelf'[cur] =
               [f \in DOMAIN ours \cup DOMAIN theirs |->
                  IF f \notin DOMAIN theirs THEN ours[f]
                  ELSE IF f \notin DOMAIN ours THEN theirs[f]
                  ELSE ours[f] \cup theirs[f]]
          /\ \A o \in CLs \ {cur} : shelf'[o] = shelf[o]]_vars

\* C23 witness: a descendant's step has just completed on a file that its
\* parent shelves too, and the child's shelf keeps an edit the parent lacks.
C23_Witness ==
  /\ pc = "loop"
  /\ cur \in CLs \ {state.base_cl}
  /\ state.rebased_cls # <<>>
  /\ Last(state.rebased_cls) = cur
  /\ \E f \in DOMAIN shelf[cur] \cap DOMAIN shelf[nodes[cur].parent_cl] :
       shelf[cur][f] \ shelf[nodes[cur].parent_cl][f] # {}

\* A run has paused on a conflict in changelist state.conflict_cl.
Paused == Ended /\ outcome = "conflict"

\* The step by which a run pauses on a conflict.
Pauses == pc # "idle" /\ pc' = "idle" /\ outcome' = "conflict"

\* The shelf of the conflicting CL holds, for every conflicting file, what the
\* child had and what the parent brought.
ShelfHoldsConflictContent ==
  \A f \in NeedResolve(ws) :
    /\ f \in DOMAIN shelf[state.conflict_cl]
    /\ ws[f].content \cup Their(ws, f) \subseteq shelf[state.conflict_cl][f]

\* The shelf of the conflicting CL is the one it had when the run began, and
\* the files of the step are opened in that CL, the conflicting ones with the
\* child's content.
ShelfKeptWorkspaceOpened ==
  /\ shelf[state.conflict_cl] = shelf0[state.conflict_cl]
  /\ OpenedIn(ws, state.conflict_cl) = DOMAIN ws
  /\ DOMAIN shelf[state.conflict_cl] \subseteq DOMAIN ws
  /\ \A f \in NeedResolve(ws) :
       /\ f \in DOMAIN shelf[state.conflict_cl]
       /\ ws[f].content = shelf[state.conflict_cl][f]

StepDone ==
  /\ pc = "loop"
  /\ cur \in CLs
  /\ state.rebased_cls # <<>>
  /\ Last(state.rebased_cls) = cur

RECURSIVE TagAncestors(_, _)
\* The pending CLs reached from c by one to n Depends-On tags.
TagAncestors(c, n) ==
  IF n = 0 \/ NamedParent(c) = None THEN {}
  ELSE {NamedParent(c)} \cup TagAncestors(NamedParent(c), n - 1)

\* The CLs in the forest under the returned roots.
Reachable == Range(fout.graph.roots) \cup Below(Range(fout.graph.roots), MaxCL)

\* C26: when the Depends-On tags of the pending CLs form a cycle (a CL that
\* names itself too), the smallest CL of the cycle is a root of the built
\* graph, and every pending CL is exactly once in the forest under the roots.
C26_CycleBrokenAtSmallest ==
  GraphBuilt =>
    /\ \A c \in CLs :
         (/\ c \in TagAncestors(c, MaxCL)
          /\ \A d \in TagAncestors(c, MaxCL) : c <= d)
           => c \in Range(fout.graph.roots)
    /\ \A c \in CLs :
         /\ c \in Reachable
         /\ Occurrences(fout.graph.roots, c)
              + Cardinality({p \in Reachable : Edge(p, c)}) = 1

\* C27: a basename of base is left out of the folder merge's result exactly
\* when ours lacks it and theirs has base's content, or theirs lacks it and
\* ours has base's content, or both lack it; and the result has no key that
\* is in none of the three snapshots.
C27_OmittedExactlyOnDeletion ==
  fpc = "merged" =>
    /\ \A f \in DOMAIN fin.base_folder :
         (f \notin DOMAIN fout.merged) <=>
           \/ /\ f \notin DOMAIN fin.ours_folder
              /\ f \in DOMAIN fin.theirs_folder
              /\ fin.theirs_folder[f] = fin.base_folder[f]
           \/ /\ f \notin DOMAIN fin.theirs_folder
              /\ f \in DOMAIN fin.ours_folder
              /\ fin.ours_folder[f] = fin.base_folder[f]
           \/ /\ f \notin DOMAIN fin.ours_folder
              /\ f \notin DOMAIN fin.theirs_folder
    /\ DOMAIN fout.merged \subseteq
         DOMAIN fin.base_folder \cup DOMAIN fin.ours_folder
           \cup DOMAIN fin.theirs_folder

\* C27 witness: one file of base is left out because ours deleted it and
\* theirs kept base's content, and another file of base, deleted by ours and
\* changed by theirs, is in the result.
C27_Witness ==
  /\ fpc = "merged"
  /\ \E f, g \in DOMAIN fin.base_folder :
       /\ f \notin DOMAIN fin.ours_folder
       /\ f \in DOMAIN fin.theirs_folder
       /\ fin.theirs_folder[f] = fin.base_folder[f]
       /\ f \notin DOMAIN fout.merged
       /\ g \notin DOMAIN fin.ours_folder
       /\ g \in DOMAIN fin.theirs_folder
       /\ fin.theirs_folder[g] # fin.base_folder[g]
       /\ g \in DOMAIN fout.merged

\* f is in base, one side lacks it and the other holds a content that is not
\* base's.
DeleteVsModify(f) ==
  /\ f \in DOMAIN fin.base_folder
  /\ \/ /\ f \notin DOMAIN fin.ours_folder
        /\ f \in DOMAIN fin.theirs_folder
        /\ fin.theirs_folder[f] # fin.base_folder[f]
     \/ /\ f \notin DOMAIN fin.theirs_folder
        /\ f \in DOMAIN fin.ours_folder
        /\ fin.ours_folder[f] # fin.base_folder[f]

\* f is in one of the five rows of the folder merge's table: added on one
\* side only, deleted on one side and unchanged on the other, deleted on both.
InTableRow(f) ==
  \/ AddedOnOneSide(f)
  \/ /\ f \in DOMAIN fin.base_folder
     /\ ~DeleteVsModify(f)
     /\ f \notin DOMAIN fin.ours_folder \cap DOMAIN fin.theirs_folder

\* C28: every file outside the five table rows is merged by the file-level
\* merge with an absent side passed as the empty content, and a file deleted
\* on one side and modified on the other is in the result with
\* has_conflict = true.
C28_DeleteVsModifyConflicts ==
  fpc = "merged" =>
    \A f \in DOMAIN fin.base_folder \cup DOMAIN fin.ours_folder
               \cup DOMAIN fin.theirs_folder :
      /\ ~InTableRow(f) =>
           /\ f \in fout.diff3_calls
           /\ f \in DOMAIN fout.merged
           /\ fout.merged[f] =
                _three_way_merge_file(OrEmpty(fin.base_folder, f),
                                      OrEmpty(fin.ours_folder, f),
                                      OrEmpty(fin.theirs_folder, f))
      /\ DeleteVsModify(f) =>
           /\ f \in DOMAIN fout.merged
           /\ fout.merged[f][2] = TRUE

\* The run of the merge tool for file f of the three snapshots.
ToolRun(f) ==
  diff3(OrEmpty(fin.ours_folder, f), OrEmpty(fin.base_folder, f),
        OrEmpty(fin.theirs_folder, f))

\* C29: for a file handed to the file-level merge the result is (the tool's
\* output, has_conflict) with has_conflict true exactly when the tool exits
\* with 1, and when the tool exits with a code other than 0 and 1 no result
\* is returned for the file.
C29_ExitCodeDecidesResult ==
  fpc = "merged" =>
    \A f \in fout.diff3_calls :
      IF ToolRun(f).returncode \in {0, 1}
      THEN /\ f \in DOMAIN fout.merged
           /\ fout.merged[f][1] = universal_newlines(ToolRun(f).stdout)
           /\ fout.merged[f][2] = (ToolRun(f).returncode = 1)
      ELSE f \notin DOMAIN fout.merged

\* The depot paths the map of the current write gives the basenames of keys.
PathsOf(keys) == {call.filename_to_depot[k] : k \in keys}

\* C30: in a snapshot write, with edit = the keys of both snapshots whose
\* contents differ, add = the keys of the desired snapshot only and delete =
\* the keys of the previous snapshot only, the three sets are pairwise
\* disjoint, the files opened for edit are those of edit and add, the files
\* opened for delete are those of delete, and a write of a snapshot equal to
\* the previous one opens no file and shelves nothing.
C30_WriteOpensOnlyTheDifference ==
  (call.fn = "commit_snapshot_to_cl") =>
    LET new == call.new_snapshot
        orig == call.original_snapshot
        edit == {k \in DOMAIN new \cap DOMAIN orig : new[k] # orig[k]}
        add == DOMAIN new \ DOMAIN orig
        delete == DOMAIN orig \ DOMAIN new
    IN /\ edit \cap add = {} /\ edit \cap delete = {} /\ add \cap delete = {}
       /\ \A i \in 1..Len(trace) :
            /\ trace[i][1] = "edit" => trace[i][2] = PathsOf(edit \cup add)
            /\ trace[i][1] = "delete" => trace[i][2] = PathsOf(delete)
            /\ new = orig =>
                 trace[i][1] \notin {"edit", "delete", "shelve -f", "shelve -d"}
       /\ spc \in {"where", "delete", "shelve"} =>
            \A p \in OpenedIn(ws, call.cl) :
              /\ ws[p].action = "edit" => p \in PathsOf(edit \cup add)
              /\ ws[p].action = "delete" => p \in PathsOf(delete)

\* C30 witness: a write that changed one file and removed another has
\* returned, after one open for edit, one open for delete and one shelve.
C30_Witness ==
  /\ call.fn = "commit_snapshot_to_cl"
  /\ spc = "idle"
  /\ raised = "none"
  /\ \E k \in DOMAIN call.new_snapshot \cap DOMAIN call.original_snapshot :
       call.new_snapshot[k] # call.original_snapshot[k]
  /\ DOMAIN call.original_snapshot \ DOMAIN call.new_snapshot # {}
  /\ {trace[i][1] : i \in 1..Len(trace)}
       = {"revert", "edit", "where", "delete", "shelve -f"}

\* A snapshot write has returned without raising.
WriteReturned ==
  call.fn = "commit_snapshot_to_cl" /\ spc = "idle" /\ raised = "none"

\* The VCS operations the current call has issued.
Issued == {trace[i][1] : i \in 1..Len(trace)}

\* C31: a snapshot write that adds, edits or deletes a file force-shelves,
\* and a write of an empty desired snapshot over a non-empty previous one
\* issues the shelve with the delete flag.
C31_EmptyDesiredDeletesShelf ==
  WriteReturned =>
    /\ call.new_snapshot # call.original_snapshot => "shelve -f" \in Issued
    /\ (DOMAIN call.new_snapshot = {} /\ DOMAIN call.original_snapshot # {})
         => "shelve -d" \in Issued

\* The desired snapshot of the current write has a new or changed basename
\* that the file-to-depot map lacks.
WriteLacksDepotPath ==
  /\ call.fn = "commit_snapshot_to_cl"
  /\ \E k \in DOMAIN call.new_snapshot \ DOMAIN call.filename_to_depot :
       \/ k \notin DOMAIN call.original_snapshot
       \/ call.original_snapshot[k] # call.new_snapshot[k]

\* C32: a snapshot write whose desired snapshot has a new or changed basename
\* missing from the map fails (with the operation error of the missing
\* mapping, unless a revert of the call fails itself), and it opens no file
\* for edit or delete and shelves nothing: the shelf is the one it found.
C32_MissingDepotPathFailsBeforeOpen ==
  WriteLacksDepotPath =>
    /\ Issued \subseteq {"revert"}
    /\ shelf = shelf0
    /\ spc = "idle" =>
         /\ raised # "none"
         /\ fault = "none" => raised = "operation-failed"

\* C32 witness: a write with a new basename missing from the map has failed
\* after its two reverts, with other files to edit and to delete.
C32_Witness ==
  /\ WriteLacksDepotPath
  /\ spc = "idle"
  /\ raised = "operation-failed"
  /\ fault = "none"
  /\ Len(trace) = 2
  /\ DOMAIN call.original_snapshot \ DOMAIN call.new_snapshot # {}

\* The finally clause of a snapshot write runs its revert and the call ends.
WriteEnds ==
  call.fn = "commit_snapshot_to_cl" /\ spc = "finally" /\ spc' = "idle"

\* C33 (as claimed): every snapshot write issues revert as its first and as
\* its last VCS operation, whether it returns or raises, and no file is
\* opened in the CL when it ends.
C33_RevertFirstAndLastLeavesNothingOpened ==
  (call.fn = "commit_snapshot_to_cl" /\ trace # <<>>) =>
    /\ trace[1][1] = "revert"
    /\ spc = "idle" =>
         /\ Len(trace) >= 2
         /\ Last(trace)[1] = "revert"
         /\ OpenedIn(ws, call.cl) = {}

\* C33 (amended): every snapshot write issues revert as its first and as its
\* last VCS operation, whether it returns or raises; when that last revert
\* succeeds no file is opened in the CL when the write ends.
C33_RevertFirstAndLast ==
  [][WriteEnds =>
       /\ Len(trace') >= 2
       /\ trace'[1][1] = "revert"
       /\ Last(trace')[1] = "revert"
       /\ faults' = faults => OpenedIn(ws', call.cl) = {}]_vars

\* C33 witness: a write that opened files for edit and then failed has ended
\* with nothing opened in the CL.
C33_Witness ==
  /\ call.fn = "commit_snapshot_to_cl"
  /\ spc = "idle"
  /\ raised # "none"
  /\ "edit" \in Issued
  /\ Last(trace)[1] = "revert"
  /\ OpenedIn(ws, call.cl) = {}

\* A snapshot read has ended.
ReadEnded == call.fn = "get_cl_snapshot" /\ spc = "idle"

\* C34: a snapshot read of a CL without shelved files, answered with "no
\* such file(s)", returns two empty maps and raises nothing; a read whose
\* VCS call fails for another reason raises one operation error and returns
\* nothing, and a read that returns has raised nothing.
C34_EmptyShelfReadsEmpty ==
  ReadEnded =>
    /\ (DOMAIN shelf[call.cl] = {} /\ fault = "none") =>
         /\ raised = "none"
         /\ result = Returned(NoFiles, NoFiles)
    /\ fault # "none" =>
         /\ raised = "operation-failed"
         /\ ~result.returned
    /\ result.returned <=> raised = "none"

\* C34 witness: a read of a CL whose shelf a write has emptied returned the
\* two empty maps.
C34_Witness ==
  /\ ReadEnded
  /\ DOMAIN shelf[call.cl] = {}
  /\ call.prior.call.fn = "commit_snapshot_to_cl"
  /\ result = Returned(NoFiles, NoFiles)

\* C35: a read of a CL that shelves two files with the same basename raises
\* and returns no snapshot.
C35_BasenameCollisionFails ==
  (/\ ReadEnded
   /\ \E p, q \in DOMAIN shelf[call.cl] : p # q /\ Name(p) = Name(q)) =>
    /\ raised # "none"
    /\ ~result.returned

\* The run ended because the editor exited non-zero or was not found.
EditorFailed ==
  /\ Ended /\ outcome = "error"
  /\ "editor" \in ops /\ "shelve" \notin ops

\* C36: the editor is launched for the base CL only, and when it fails the
\* run ends with the base CL's shelf as it was, the base CL not in
\* rebased_cls, and the log on disk.
C36_EditorOnlyForBase ==
  /\ edited # {} => (state # NoLog /\ edited = {state.base_cl})
  /\ pc = "editor" => cur = state.base_cl
  /\ EditorFailed =>
       /\ log # NoLog
       /\ load_state # NoLog
       /\ state.base_cl \notin Range(load_state.rebased_cls)
       /\ shelf[state.base_cl] = shelf0[state.base_cl]

\* C36 witness: the editor failed in the base step of a stack with a
\* descendant.
C36_Witness ==
  /\ EditorFailed
  /\ Len(state.stack_to_update) >= 2

\* The file holds exactly the five fields of a log entry.
WellFormedLog(file) ==
  /\ file.exists /\ file.closed
  /\ Len(file.members) = Cardinality(StateFields)
  /\ {file.members[i][1] : i \in 1..Len(file.members)} = StateFields

\* C37: load_state never raises; it returns None when the file is missing,
\* truncated, or lacks a field or carries an unknown one, and otherwise the
\* entry that was saved last.
C37_LoadAbsentUnlessWellFormed ==
  fpc = "loaded" =>
    /\ fout.raised = "none"
    /\ ~WellFormedLog(fin.file) => fout.value = NoLog
    /\ WellFormedLog(fin.file) =>
         /\ fout.value # NoLog
         /\ asdict(fout.value) = fin.file.members
         /\ fin.saved # NoLog => asdict(fin.saved) = asdict(fout.value)

NoDuplicates(s) == \A i, j \in 1..Len(s) : s[i] = s[j] => i = j

\* C38: in every log the engine writes, rebased_cls is a duplicate-free
\* prefix of stack_to_update, and base_cl and stack_to_update stay as they
\* were when the log was created for as long as the log exists.
C38_RebasedIsPrefixStackFixed ==
  /\ [](log # NoLog =>
          /\ IsPrefix(log.rebased_cls, log.stack_to_update)
          /\ NoDuplicates(log.rebased_cls))
  /\ [][(log # NoLog /\ log' # NoLog) =>
          /\ log'.base_cl = log.base_cl
          /\ log'.stack_to_update = log.stack_to_update]_vars

\* C38 witness: a log that was continued after a conflict pause holds two
\* rebased CLs of a longer stack.
C38_Witness ==
  /\ log # NoLog
  /\ cmd.cont
  /\ Len(log.rebased_cls) = 2
  /\ Len(log.stack_to_update) = 3

\* C39: a conflict_cl in the log is the first CL of stack_to_update that is
\* not in rebased_cls, and it is not base_cl.
C39_ConflictIsNextUnrebased ==
  (log # NoLog /\ log.conflict_cl # None) =>
    /\ Len(log.rebased_cls) < Len(log.stack_to_update)
    /\ log.conflict_cl = log.stack_to_update[Len(log.rebased_cls) + 1]
    /\ \A i \in 1..Len(log.stack_to_update) :
         log.stack_to_update[i] \notin Range(log.rebased_cls)
           => i >= Len(log.rebased_cls) + 1
    /\ log.conflict_cl # log.base_cl

\* C39 witness: the log records a conflict in the last CL of a stack of
\* three, after the two before it were rebased.
C39_Witness ==
  /\ log # NoLog
  /\ log.conflict_cl # None
  /\ Len(log.rebased_cls) = 2

\* No VCS call and no editor run of the behaviour fails.
NoError == outcome \notin {"error", "login"}

\* The rebase is done: the log is cleared and the completed steps are the
\* CLs of stack_to_update, each once.
RebaseDone ==
  /\ pc = "idle" /\ outcome = "done"
  /\ log = NoLog
  /\ shelvedCLs = state.stack_to_update

\* C40: when no VCS call and no editor run fails, a started rebase whose
\* conflicts the user resolves and continues reaches done with the log
\* cleared, each CL of stack_to_update having completed its step once.
C40_RebaseReachesDone == ([]NoError) => ((log # NoLog) ~> RebaseDone)

\* C40 witness: a stack of three is done by a continued run.
C40_Witness ==
  /\ RebaseDone
  /\ cmd.cont
  /\ Len(state.stack_to_update) = 3

====
